---- MODULE Spec2Model ----
(***************************************************************************)
(* Verification model of the Hopf-onset drivers and test utilities:        *)
(*   libtest.taylor_convergence, libsetup.load_hopf / setup_hopf_state,    *)
(*   main_hopf (initial guess and Newton linear subproblem) and the        *)
(*   stress-test driver main_inv_stress_test_lsa.                          *)
(* The stress-test driver is modelled by stage (run_solve_hopf, set_props, *)
(* optimize_comp_amp, the objective of run_inv_opt) and as a whole over    *)
(* several runs of the script with the contents of its output files.       *)
(* Each component has its own variables and its own specification; the     *)
(* variables of the components a specification does not run stay idle.     *)
(***************************************************************************)
EXTENDS Integers, Sequences, FiniteSets, TLC

VARIABLES
    \* libtest.taylor_convergence: position, arguments, returned tuple
    tc_pc, tc_in, tc_out,
    \* setup_hopf_state (libsetup, test_libfunctionals) and the main_hopf script:
    \* position, driver, hopf_state_path, fixed-point result, eigenvalues,
    \* selected eigenpair, initial guess and the segments assigned in it,
    \* Hopf result, solver calls made, persisted file
    su_pc, su_driver, su_path, su_fp, su_omegas, su_sel, su_xhopf0,
    su_assigned, su_hopf, su_calls, su_file,
    \* run_solve_hopf of the stress-test driver: position,
    \* case (emod_cov, emod_bod), props set, omega_real read
    \* from the LSA file, is_hopf_bif, arguments handed to
    \* gen_hopf_initial_guess, Hopf result, solver calls made, groups written
    rs_pc, rs_case, rs_props, rs_omegas_real, rs_is_hopf_bif, rs_guess, rs_hopf,
    rs_calls, rs_file,
    \* stress-test __main__: stage loop, loop indices, files under
    \* out/stress_test, cases each stage loop has visited
    dr_stage, dr_ii, dr_jj, dr_files, dr_visited,
    \* libsetup.load_hopf: position, arguments, fluid types, the two models,
    \* the props vector, the Hopf model
    lh_pc, lh_args, lh_types, lh_res, lh_dres, lh_props, lh_hopf,
    \* run_inv_opt objective: position, (alpha, c), the composed functionals,
    \* leaf values, leaf derivatives of the kind asked for, that kind, result
    fn_pc, fn_par, fn_func, fn_leaf, fn_dleaf, fn_kind, fn_out,
    \* main_hopf Newton solve on linear_subproblem_hopf: position, iterate,
    \* residual, Jacobian, linear solver, diagnostics
    nw_pc, nw_n, nw_res, nw_jac, nw_ksp, nw_info,
    \* stress-test campaign: run number, stage loop, loop indices, solver outcomes,
    \* files under out/stress_test with their contents, cases each stage has
    \* handled in this run, the last case handled
    st_run, st_stage, st_ii, st_jj, st_world, st_fs, st_handled, st_last,
    \* set_props of the stress-test driver: position, cover and body dofs, the
    \* props vector of the model, its value before the last call, the props
    \* bound to the model, the case of the last call, calls made
    sp_pc, sp_mesh, sp_props, sp_prev, sp_model, sp_case, sp_calls,
    \* optimize_comp_amp: position, amplitude objects and their components, the
    \* object the functional holds, the object camp0, points evaluated, number
    \* of evaluations, opt_res['x'], the object returned
    oc_pc, oc_heap, oc_func, oc_camp0, oc_seen, oc_evals, oc_sol, oc_ret

taylorVars == <<tc_pc, tc_in, tc_out>>
setupVars  == <<su_pc, su_driver, su_path, su_fp, su_omegas, su_sel, su_xhopf0,
                su_assigned, su_hopf, su_calls, su_file>>
runVars    == <<rs_pc, rs_case, rs_props, rs_omegas_real, rs_is_hopf_bif, rs_guess,
                rs_hopf, rs_calls, rs_file>>
driverVars == <<dr_stage, dr_ii, dr_jj, dr_files, dr_visited>>
loadVars   == <<lh_pc, lh_args, lh_types, lh_res, lh_dres, lh_props, lh_hopf>>
funcVars   == <<fn_pc, fn_par, fn_func, fn_leaf, fn_dleaf, fn_kind, fn_out>>
newtonVars == <<nw_pc, nw_n, nw_res, nw_jac, nw_ksp, nw_info>>
stressVars == <<st_run, st_stage, st_ii, st_jj, st_world, st_fs, st_handled, st_last>>
propsVars == <<sp_pc, sp_mesh, sp_props, sp_prev, sp_model, sp_case, sp_calls>>
campVars == <<oc_pc, oc_heap, oc_func, oc_camp0, oc_seen, oc_evals, oc_sol, oc_ret>>

vars == <<taylorVars, setupVars, runVars, driverVars, loadVars, funcVars, newtonVars,
         stressVars, propsVars, campVars>>

\* what an action of one component leaves alone
NotTaylor == <<setupVars, runVars, driverVars, loadVars, funcVars, newtonVars,
               stressVars, propsVars, campVars>>
NotSetup  == <<taylorVars, runVars, driverVars, loadVars, funcVars, newtonVars,
               stressVars, propsVars, campVars>>
NotRun    == <<taylorVars, setupVars, driverVars, loadVars, funcVars, newtonVars,
               stressVars, propsVars, campVars>>
NotDriver == <<taylorVars, setupVars, runVars, loadVars, funcVars, newtonVars,
               stressVars, propsVars, campVars>>
NotLoad   == <<taylorVars, setupVars, runVars, driverVars, funcVars, newtonVars,
               stressVars, propsVars, campVars>>
NotFunc   == <<taylorVars, setupVars, runVars, driverVars, loadVars, newtonVars,
               stressVars, propsVars, campVars>>
NotNewton == <<taylorVars, setupVars, runVars, driverVars, loadVars, funcVars,
               stressVars, propsVars, campVars>>
NotStress == <<taylorVars, setupVars, runVars, driverVars, loadVars, funcVars,
               newtonVars, propsVars, campVars>>
NotProps == <<taylorVars, setupVars, runVars, driverVars, loadVars, funcVars,
              newtonVars, stressVars, campVars>>
NotCamp == <<taylorVars, setupVars, runVars, driverVars, loadVars, funcVars,
             newtonVars, stressVars, propsVars>>

(***************************************************************************)
(* Generic helpers                                                         *)
(***************************************************************************)
Abs(x) == IF x < 0 THEN -x ELSE x

RECURSIVE Pow(_, _)
Pow(b, n) == IF n = 0 THEN 1 ELSE b * Pow(b, n - 1)

(***************************************************************************)
(* libtest.taylor_convergence                                              *)
(*                                                                         *)
(* The value function handed in is a polynomial along the line             *)
(* x0 + a*dx:  res(x0 + a*dx) = r0 + a*d + a^2*c + a^3*e, so its exact     *)
(* directional derivative at x0 along dx is d.  jac(x0, dx) returns the    *)
(* number the caller supplies (the exact d, or a corrupted one).  All      *)
(* values are scalars and the norm is the absolute value, as in the        *)
(* functional tests (norm=lambda x: x applied to a non-negative error is   *)
(* replaced here by bla.norm of a scalar).                                 *)
(***************************************************************************)
MaxCoef == 2            \* bound on the polynomial coefficients drawn
MaxBase == 1            \* bound on the base point x0 drawn
MaxDir  == 2            \* bound on the direction dx drawn (1..MaxDir)

NAlphas == 4            \* np.arange(4)

Coefs == (-MaxCoef)..MaxCoef

TaylorInputs ==
    { [x0 |-> x0, dx |-> dx, r0 |-> r0, d |-> d, c |-> c, e |-> e, jscale |-> s] :
        x0 \in 0..MaxBase, dx \in 1..MaxDir, r0 \in {0, 1},
        d \in Coefs, c \in Coefs, e \in (-1)..1, s \in {1, 2} }

\* res(x): the caller's value function, evaluated at a point of the line
ResFn(in, x) ==
    LET a == (x - in.x0) \div in.dx
    IN  in.r0 + a * in.d + a * a * in.c + a * a * a * in.e

\* jac(x0, dx): the caller's directional derivative
JacFn(in, x0, dx) == in.jscale * in.d

\* alphas = 2**np.arange(4)[::-1]
AlphasMut == [k \in 1..NAlphas |-> Pow(2, k - 1)]
Alphas == [k \in 1..NAlphas |-> Pow(2, NAlphas - k)]

\* res_ns = [res(x0+alpha*dx) for alpha in alphas]
ResNs(in, alphas) == [k \in 1..Len(alphas) |-> ResFn(in, in.x0 + alphas[k] * in.dx)]

\* dres_exacts = [res_n-res_0 for res_n in res_ns]
DresExacts(res_ns, res_0) == [k \in 1..Len(res_ns) |-> res_ns[k] - res_0]

\* errs = [norm(dres_exact-alpha*dres_linear) ...]
ErrsMut(dres_exacts, dres_linear, alphas) ==
    [k \in 1..Len(alphas) |-> Abs(dres_exacts[k] - dres_linear)]
ErrsHalfMut(dres_exacts, dres_linear, alphas) ==
    [k \in 1..Len(alphas) |-> Abs(dres_exacts[k] - (alphas[k] * dres_linear) \div 2)]
Errs(dres_exacts, dres_linear, alphas) ==
    [k \in 1..Len(alphas) |-> Abs(dres_exacts[k] - alphas[k] * dres_linear)]

\* magnitudes = [1/2*norm(dres_exact+alpha*dres_linear) ...], kept as n/2
Magnitudes(dres_exacts, dres_linear, alphas) ==
    [k \in 1..Len(alphas) |->
        [num |-> Abs(dres_exacts[k] + alphas[k] * dres_linear), den |-> 2]]

\* conv_rates = log(errs[:-1]/errs[1:])/log(alphas[:-1]/alphas[1:]):
\* one entry per pair of consecutive step sizes, kept as the two quotients
\* whose logarithms are divided; 0/0 and x/0 are numpy's nan and inf.
ConvRates(errs, alphas) ==
    [k \in 1..(Len(alphas) - 1) |->
        [err_hi |-> errs[k], err_lo |-> errs[k + 1],
         alpha_hi |-> alphas[k], alpha_lo |-> alphas[k + 1]]]

\* The whole function: returns alphas, errs, magnitudes, conv_rates
TaylorConvergence(in) ==
    LET alphas      == Alphas
        res_ns      == ResNs(in, alphas)
        res_0       == ResFn(in, in.x0)
        dres_exacts == DresExacts(res_ns, res_0)
        dres_linear == JacFn(in, in.x0, in.dx)
        errs        == Errs(dres_exacts, dres_linear, alphas)
    IN  [alphas |-> alphas, errs |-> errs,
         magnitudes |-> Magnitudes(dres_exacts, dres_linear, alphas),
         conv_rates |-> ConvRates(errs, alphas)]

NoOut == [alphas |-> <<>>, errs |-> <<>>, magnitudes |-> <<>>, conv_rates |-> <<>>]

TaylorIdle ==
    /\ tc_pc = "idle"
    /\ tc_in = [x0 |-> 0, dx |-> 1, r0 |-> 0, d |-> 0, c |-> 0, e |-> 0, jscale |-> 1]
    /\ tc_out = NoOut

TaylorInit ==
    /\ tc_pc = "call"
    /\ tc_in \in TaylorInputs
    /\ tc_out = NoOut

TaylorCall ==
    /\ tc_pc = "call"
    /\ tc_out' = TaylorConvergence(tc_in)
    /\ tc_pc' = "returned"
    /\ UNCHANGED tc_in
    /\ UNCHANGED NotTaylor

TaylorNext == TaylorCall

(***************************************************************************)
(* setup_hopf_state (libsetup.py, test_libfunctionals.py) and the          *)
(* main_hopf.py script: fixed point, modal analysis, initial guess,        *)
(* Newton solve of the Hopf system, persistence.                           *)
(*                                                                         *)
(* The Newton and eigenvalue solvers live in libhopf / nonlineq; what      *)
(* they return is drawn: a state and a diagnostics record whose            *)
(* `converged` may be FALSE (iteration cap reached), and NEig eigenvalues  *)
(* ordered by descending real part with any imaginary parts.               *)
(***************************************************************************)
MaxImag == 1            \* bound on the imaginary parts drawn (-MaxImag..MaxImag)
NEig == 4               \* eigenpairs returned: just enough for idx_hopf = 3

PSUB == 450 * 10

Drivers == {"libsetup", "test_libfunctionals", "main_hopf"}

\* hopf_state_path: libsetup's optional argument; test_libfunctionals always
\* writes out/hopf_state.h5; main_hopf writes nothing
PathsOf(driver) ==
    CASE driver = "libsetup"            -> {"none", "out/hopf_state.h5"}
      [] driver = "test_libfunctionals" -> {"out/hopf_state.h5"}
      [] OTHER                          -> {"none"}

NoMode == [vec |-> 0, normalized |-> FALSE]

\* hopf.state.copy(): the five segments before anything is assigned
DefaultGuess ==
    [state |-> "default", mode_real |-> NoMode, mode_imag |-> NoMode, psub |-> 0, omega |-> 0]

NoFp == [state |-> "default", converged |-> FALSE]
NoHopfResult == [guess |-> DefaultGuess, converged |-> FALSE]
NoSel == [idx |-> 0, omega_hopf |-> 0, mode_real |-> 0, mode_imag |-> 0]
NoFile == [exists |-> FALSE, state |-> NoHopfResult]

\* solve_fp_newton / solve_fixed_point: the state returned with the record
FpResult(conv) ==
    [state |-> IF conv THEN "xfp_root" ELSE "xfp_last_iterate", converged |-> conv]

\* solve_modal / solve_linear_stability / solve_ls
EigenvalueLists ==
    { [k \in 1..NEig |-> [re |-> -k, im |-> ims[k]]] :
        ims \in [1..NEig -> (-MaxImag)..MaxImag] }

\* idx_hopf = 3 (zero-based), omega_hopf = abs(omegas[idx_hopf].imag)
IdxHopf == 3
SelectModeMut(omegas) ==
    [idx |-> IdxHopf, omega_hopf |-> omegas[IdxHopf + 1].im,
     mode_real |-> IdxHopf + 1, mode_imag |-> IdxHopf + 1]
SelectMode(omegas) ==
    [idx |-> IdxHopf, omega_hopf |-> Abs(omegas[IdxHopf + 1].im),
     mode_real |-> IdxHopf + 1, mode_imag |-> IdxHopf + 1]

\* xhopf_0[omega].array[:] = omega_hopf, and -omega_hopf in main_hopf
OmegaGuess(driver, sel) ==
    IF driver = "main_hopf" THEN -sel.omega_hopf ELSE sel.omega_hopf

\* the `if hopf_state_path is not None` of libsetup; the other two drivers
\* have no condition
PersistsMut(driver, path, hopf) == path # "none" /\ hopf.converged
Persists(driver, path, hopf) == path # "none"

SetupIdle ==
    /\ su_pc = "idle"
    /\ su_driver = "libsetup"
    /\ su_path = "none"
    /\ su_fp = NoFp
    /\ su_omegas = <<>>
    /\ su_sel = NoSel
    /\ su_xhopf0 = DefaultGuess
    /\ su_assigned = {}
    /\ su_hopf = NoHopfResult
    /\ su_calls = [fp |-> 0, modal |-> 0, hopf |-> 0]
    /\ su_file = NoFile

SetupInit ==
    /\ su_pc = "fp_solve"
    /\ su_driver \in Drivers
    /\ su_path \in PathsOf(su_driver)
    /\ su_fp = NoFp
    /\ su_omegas = <<>>
    /\ su_sel = NoSel
    /\ su_xhopf0 = DefaultGuess
    /\ su_assigned = {}
    /\ su_hopf = NoHopfResult
    /\ su_calls = [fp |-> 0, modal |-> 0, hopf |-> 0]
    /\ su_file = NoFile

\* xfp_n, _ = libhopf.solve_fp_newton(res, xfp_0, PSUB, newton_params=...)
SetupSolveFp ==
    /\ su_pc = "fp_solve"
    /\ \E conv \in BOOLEAN : su_fp' = FpResult(conv)
    /\ su_calls' = [su_calls EXCEPT !.fp = @ + 1]
    /\ su_pc' = "modal"
    /\ UNCHANGED <<su_driver, su_path, su_omegas, su_sel, su_xhopf0, su_assigned,
                   su_hopf, su_file>>
    /\ UNCHANGED NotSetup

\* omegas, eigvecs_real, eigvecs_imag = libhopf.solve_modal(res, xfp_n, PSUB)
SetupModal ==
    /\ su_pc = "modal"
    /\ su_omegas' \in EigenvalueLists
    /\ su_calls' = [su_calls EXCEPT !.modal = @ + 1]
    /\ su_pc' = "select"
    /\ UNCHANGED <<su_driver, su_path, su_fp, su_sel, su_xhopf0, su_assigned,
                   su_hopf, su_file>>
    /\ UNCHANGED NotSetup

\* idx_hopf = 3; omega_hopf = ...; mode_real_hopf = ...; mode_imag_hopf = ...
SetupSelect ==
    /\ su_pc = "select"
    /\ su_sel' = SelectMode(su_omegas)
    /\ su_pc' = "assign_state"
    /\ UNCHANGED <<su_driver, su_path, su_fp, su_omegas, su_xhopf0, su_assigned,
                   su_hopf, su_calls, su_file>>
    /\ UNCHANGED NotSetup

\* xhopf_0 = hopf.state.copy(); xhopf_0[state_labels] = xfp_n
SetupAssignState ==
    /\ su_pc = "assign_state"
    /\ su_xhopf0' = [DefaultGuess EXCEPT !.state = su_fp.state]
    /\ su_assigned' = {"state"}
    /\ su_pc' = "assign_psub"
    /\ UNCHANGED <<su_driver, su_path, su_fp, su_omegas, su_sel, su_hopf, su_calls, su_file>>
    /\ UNCHANGED NotSetup

\* xhopf_0[psub_labels[0]].array[:] = PSUB
SetupAssignPsub ==
    /\ su_pc = "assign_psub"
    /\ su_xhopf0' = [su_xhopf0 EXCEPT !.psub = PSUB]
    /\ su_assigned' = su_assigned \cup {"psub"}
    /\ su_pc' = "assign_omega"
    /\ UNCHANGED <<su_driver, su_path, su_fp, su_omegas, su_sel, su_hopf, su_calls, su_file>>
    /\ UNCHANGED NotSetup

\* xhopf_0[omega_labels[0]].array[:] = omega_hopf
SetupAssignOmega ==
    /\ su_pc = "assign_omega"
    /\ su_xhopf0' = [su_xhopf0 EXCEPT !.omega = OmegaGuess(su_driver, su_sel)]
    /\ su_assigned' = su_assigned \cup {"omega"}
    /\ su_pc' = "assign_modes"
    /\ UNCHANGED <<su_driver, su_path, su_fp, su_omegas, su_sel, su_hopf, su_calls, su_file>>
    /\ UNCHANGED NotSetup

\* xmode_real, xmode_imag = normalize_eigenvector_by_hopf(...);
\* xhopf_0[mode_real_labels] = xmode_real; xhopf_0[mode_imag_labels] = xmode_imag
SetupAssignModes ==
    /\ su_pc = "assign_modes"
    /\ su_xhopf0' = [su_xhopf0 EXCEPT
                        !.mode_real = [vec |-> su_sel.mode_real, normalized |-> TRUE],
                        !.mode_imag = [vec |-> su_sel.mode_imag, normalized |-> TRUE]]
    /\ su_assigned' = su_assigned \cup {"mode_real", "mode_imag"}
    /\ su_pc' = "hopf_solve"
    /\ UNCHANGED <<su_driver, su_path, su_fp, su_omegas, su_sel, su_hopf, su_calls, su_file>>
    /\ UNCHANGED NotSetup

\* xhopf_n, info = libhopf.solve_hopf_newton(hopf, xhopf_0)
\* (nleq.newton_solve(xhopf_0, linear_subproblem_hopf, ...) in main_hopf)
SetupSolveHopf ==
    /\ su_pc = "hopf_solve"
    /\ \E conv \in BOOLEAN : su_hopf' = [guess |-> su_xhopf0, converged |-> conv]
    /\ su_calls' = [su_calls EXCEPT !.hopf = @ + 1]
    /\ su_pc' = "persist"
    /\ UNCHANGED <<su_driver, su_path, su_fp, su_omegas, su_sel, su_xhopf0, su_assigned,
                   su_file>>
    /\ UNCHANGED NotSetup

\* with h5py.File(hopf_state_path, mode='w') as f: ... append xhopf_n; return
SetupPersist ==
    /\ su_pc = "persist"
    /\ su_file' = IF Persists(su_driver, su_path, su_hopf)
                  THEN [exists |-> TRUE, state |-> su_hopf]
                  ELSE su_file
    /\ su_pc' = "done"
    /\ UNCHANGED <<su_driver, su_path, su_fp, su_omegas, su_sel, su_xhopf0, su_assigned,
                   su_hopf, su_calls>>
    /\ UNCHANGED NotSetup

SetupNext ==
    \/ SetupSolveFp
    \/ SetupModal
    \/ SetupSelect
    \/ SetupAssignState
    \/ SetupAssignPsub
    \/ SetupAssignOmega
    \/ SetupAssignModes
    \/ SetupSolveHopf
    \/ SetupPersist

(***************************************************************************)
(* Stress-test driver (main_inv_stress_test_lsa.py): constants             *)
(***************************************************************************)
\* np.arange(start, stop, step) on integers
RECURSIVE Arange(_, _, _)
Arange(start, stop, step) ==
    IF start >= stop THEN <<>> ELSE <<start>> \o Arange(start + step, stop, step)

\* PSUBS = np.arange(100, 1500, 100)*10
PSUBS == [k \in DOMAIN Arange(100, 1500, 100) |-> Arange(100, 1500, 100)[k] * 10]

\* EMODS = np.arange(2.5, 12.5+2.5, 2.5) * 1e3*10, the moduli counted in
\* tenths of a kPa before the scaling (25 is 2.5 kPa), in dPa after it
EMODS == [k \in DOMAIN Arange(25, 125 + 25, 25) |-> Arange(25, 125 + 25, 25)[k] * 1000]

(***************************************************************************)
(* run_solve_hopf                                                          *)
(*                                                                         *)
(* The LSA file is read as the LSA stage left it: omega_real holds one     *)
(* real part per sweep point.  The sweeps drawn here have NSweep points    *)
(* (the first NSweep pressures of PSUBS) with real parts in                *)
(* -MaxOmega..MaxOmega.                                                    *)
(***************************************************************************)
NSweep == 4             \* bound on the number of sweep points of a sweep drawn
MaxOmega == 1           \* bound on the real parts drawn

Sweeps == [1..NSweep -> (-MaxOmega)..MaxOmega]

RunCases == { <<EMODS[1], EMODS[1]>>, <<EMODS[1], EMODS[2]>> }

\* is_hopf_bif = [(w2 > 0 and w1 <=0) for w1, w2 in zip(omegas_real[:-1], omegas_real[1:])]
IsHopfBifMut(omegas_real) ==
    [k \in 1..(Len(omegas_real) - 1) |-> omegas_real[k + 1] > 0 /\ omegas_real[k] < 0]
IsHopfBif(omegas_real) ==
    [k \in 1..(Len(omegas_real) - 1) |-> omegas_real[k + 1] > 0 /\ omegas_real[k] <= 0]

\* is_hopf_bif.count(True)
CountTrue(bs) == Cardinality({k \in DOMAIN bs : bs[k]})

\* is_hopf_bif.index(True), zero-based
IndexTrueMut(bs) == (CHOOSE k \in DOMAIN bs : bs[k] /\ \A j \in DOMAIN bs : bs[j] => k >= j) - 1
IndexTrue(bs) == (CHOOSE k \in DOMAIN bs : bs[k] /\ \A j \in DOMAIN bs : bs[j] => k <= j) - 1

\* the arguments of libhopf.gen_hopf_initial_guess(res_hopf, ([PSUBS[idx_hopf]],
\* [PSUBS[idx_hopf+1]]), ([omegas_real[idx_hopf]], [omegas_real[idx_hopf+1]]))
GuessArgs(idx_hopf, omegas_real) ==
    [called |-> TRUE, idx |-> idx_hopf,
     psubs  |-> <<PSUBS[idx_hopf + 1], PSUBS[idx_hopf + 2]>>,
     omegas |-> <<omegas_real[idx_hopf + 1], omegas_real[idx_hopf + 2]>>]

NoGuess == [called |-> FALSE, idx |-> 0, psubs |-> <<0, 0>>, omegas |-> <<0, 0>>]
NoRunResult == [guess |-> NoGuess, converged |-> FALSE]
NoProps == [emod_cov |-> 0, emod_bod |-> 0]
NoGroups == [state |-> [exists |-> FALSE, val |-> NoRunResult],
             props |-> [exists |-> FALSE, val |-> NoProps]]

RunIdle ==
    /\ rs_pc = "idle"
    /\ rs_case = <<0, 0>>
    /\ rs_props = NoProps
    /\ rs_omegas_real = <<>>
    /\ rs_is_hopf_bif = <<>>
    /\ rs_guess = NoGuess
    /\ rs_hopf = NoRunResult
    /\ rs_calls = 0
    /\ rs_file = NoGroups

RunInit ==
    /\ rs_pc = "set_props"
    /\ rs_case \in RunCases
    /\ rs_props = NoProps
    /\ rs_omegas_real = <<>>
    /\ rs_is_hopf_bif = <<>>
    /\ rs_guess = NoGuess
    /\ rs_hopf = NoRunResult
    /\ rs_calls = 0
    /\ rs_file = NoGroups

\* props = set_props(res_hopf.props, celllabel_to_dofs, emod_cov, emod_bod);
\* res_hopf.set_props(props)
RunSetProps ==
    /\ rs_pc = "set_props"
    /\ rs_props' = [emod_cov |-> rs_case[1], emod_bod |-> rs_case[2]]
    /\ rs_pc' = "read_lsa"
    /\ UNCHANGED <<rs_case, rs_omegas_real, rs_is_hopf_bif, rs_guess, rs_hopf, rs_calls, rs_file>>
    /\ UNCHANGED NotRun

\* with h5py.File(lsa_fpath, mode='r') as f_lsa: omegas_real = f_lsa['omega_real'][:]
RunReadLsa ==
    /\ rs_pc = "read_lsa"
    /\ rs_omegas_real' \in Sweeps
    /\ rs_pc' = "detect"
    /\ UNCHANGED <<rs_case, rs_props, rs_is_hopf_bif, rs_guess, rs_hopf, rs_calls, rs_file>>
    /\ UNCHANGED NotRun

\* is_hopf_bif = [...]; if is_hopf_bif.count(True) == 0: print(...) and return
RunDetect ==
    /\ rs_pc = "detect"
    /\ rs_is_hopf_bif' = IsHopfBif(rs_omegas_real)
    /\ rs_pc' = IF CountTrue(rs_is_hopf_bif') = 0 THEN "done" ELSE "guess"
    /\ UNCHANGED <<rs_case, rs_props, rs_omegas_real, rs_guess, rs_hopf, rs_calls, rs_file>>
    /\ UNCHANGED NotRun

\* idx_hopf = is_hopf_bif.index(True); xhopf_0 = libhopf.gen_hopf_initial_guess(...)
RunGuess ==
    /\ rs_pc = "guess"
    /\ rs_guess' = GuessArgs(IndexTrue(rs_is_hopf_bif), rs_omegas_real)
    /\ rs_pc' = "solve"
    /\ UNCHANGED <<rs_case, rs_props, rs_omegas_real, rs_is_hopf_bif, rs_hopf, rs_calls, rs_file>>
    /\ UNCHANGED NotRun

\* xhopf_n, info = libhopf.solve_hopf_newton(res_hopf, xhopf_0)
RunSolve ==
    /\ rs_pc = "solve"
    /\ \E conv \in BOOLEAN : rs_hopf' = [guess |-> rs_guess, converged |-> conv]
    /\ rs_calls' = rs_calls + 1
    /\ rs_pc' = "write_state"
    /\ UNCHANGED <<rs_case, rs_props, rs_omegas_real, rs_is_hopf_bif, rs_guess, rs_file>>
    /\ UNCHANGED NotRun

\* create_resizable_block_vector_group(f.require_group('state'), ...);
\* append_block_vector_to_group(f['state'], xhopf_n)
RunWriteState ==
    /\ rs_pc = "write_state"
    /\ rs_file' = [rs_file EXCEPT !.state = [exists |-> TRUE, val |-> rs_hopf]]
    /\ rs_pc' = "write_props"
    /\ UNCHANGED <<rs_case, rs_props, rs_omegas_real, rs_is_hopf_bif, rs_guess, rs_hopf, rs_calls>>
    /\ UNCHANGED NotRun

\* create_resizable_block_vector_group(f.require_group('props'), ...);
\* append_block_vector_to_group(f['props'], props)
RunWriteProps ==
    /\ rs_pc = "write_props"
    /\ rs_file' = [rs_file EXCEPT !.props = [exists |-> TRUE, val |-> rs_props]]
    /\ rs_pc' = "done"
    /\ UNCHANGED <<rs_case, rs_props, rs_omegas_real, rs_is_hopf_bif, rs_guess, rs_hopf, rs_calls>>
    /\ UNCHANGED NotRun

RunNext ==
    \/ RunSetProps
    \/ RunReadLsa
    \/ RunDetect
    \/ RunGuess
    \/ RunSolve
    \/ RunWriteState
    \/ RunWriteProps

(***************************************************************************)
(* Stress-test __main__: the three stage loops over the cases and the      *)
(* case list of the post-processing.  A case's file is created by          *)
(* opening it with mode='w' when it does not exist; files left by earlier  *)
(* runs of the script may exist at the start.                              *)
(***************************************************************************)
RECURSIVE NDigits(_)
NDigits(v) == IF v < 10 THEN 1 ELSE 1 + NDigits(v \div 10)

\* f'{x:.2e}': three significant digits (round half to even) and the exponent
Fmt2e(v) ==
    LET e == NDigits(v) - 1
    IN  IF e <= 2
        THEN [mant |-> v * Pow(10, 2 - e), exp |-> e]
        ELSE LET unit == Pow(10, e - 2)
                 q    == v \div unit
                 r    == v % unit
                 up   == (2 * r > unit) \/ (2 * r = unit /\ q % 2 = 1)
                 m    == IF up THEN q + 1 ELSE q
             IN  IF m = 1000 THEN [mant |-> 100, exp |-> e + 1]
                 ELSE [mant |-> m, exp |-> e]

\* fpath = f'out/stress_test/{stage}_ecov{emod_cov:.2e}_ebody{emod_bod:.2e}.h5'
FPath(stage, emod_cov, emod_bod) ==
    [stage |-> stage, ecov |-> Fmt2e(emod_cov), ebody |-> Fmt2e(emod_bod)]

Stages == <<"LSA", "Hopf", "LargeAmp">>

\* for ii, emod_bod in enumerate(EMODS): for emod_cov in EMODS[:ii+1]:
\* the case at loop position (ii, jj), both counted from 1
CaseAt(ii, jj) == <<EMODS[jj], EMODS[ii]>>

\* the inner loop runs over EMODS[:ii+1]
InnerLen(ii) == ii

\* emods = [(ecov, ebod) for ecov, ebod in itertools.product(EMODS, EMODS) if ecov <= ebod]
PostprocCases ==
    { cb \in { <<EMODS[a], EMODS[b]>> : a \in DOMAIN EMODS, b \in DOMAIN EMODS } :
        cb[1] <= cb[2] }

\* files an earlier run of the script may have left
EarlierFiles ==
    { FPath(Stages[k], EMODS[1], EMODS[1]) : k \in DOMAIN Stages }

NoVisits == [LSA |-> {}, Hopf |-> {}, LargeAmp |-> {}, postproc |-> {}]

DriverIdle ==
    /\ dr_stage = "idle"
    /\ dr_ii = 0
    /\ dr_jj = 0
    /\ dr_files = {}
    /\ dr_visited = NoVisits

DriverInit ==
    /\ dr_stage = "LSA"
    /\ dr_ii = 1
    /\ dr_jj = 1
    /\ dr_files \in SUBSET EarlierFiles
    /\ dr_visited = NoVisits

\* the stage after the last case of a stage loop
StageAfter(stage) ==
    CASE stage = "LSA"      -> "Hopf"
      [] stage = "Hopf"     -> "LargeAmp"
      [] stage = "LargeAmp" -> "postproc"

\* one iteration of a stage loop: the case's file is created (and the
\* stage's computation run into it) unless it exists, then the loops advance
DriverCase(stage) ==
    /\ dr_stage = stage
    /\ LET case  == CaseAt(dr_ii, dr_jj)
           fpath == FPath(stage, case[1], case[2])
       IN  /\ dr_visited' = [dr_visited EXCEPT ![stage] = @ \cup {case}]
           /\ dr_files' = IF fpath \notin dr_files THEN dr_files \cup {fpath} ELSE dr_files
    /\ IF dr_jj < InnerLen(dr_ii)
       THEN /\ dr_jj' = dr_jj + 1
            /\ UNCHANGED <<dr_ii, dr_stage>>
       ELSE IF dr_ii < Len(EMODS)
            THEN /\ dr_ii' = dr_ii + 1
                 /\ dr_jj' = 1
                 /\ UNCHANGED dr_stage
            ELSE /\ dr_ii' = 1
                 /\ dr_jj' = 1
                 /\ dr_stage' = StageAfter(stage)
    /\ UNCHANGED NotDriver

\* if not path.isfile(fpath): with h5py.File(fpath, mode='w') as f: run_lsa(...)
DriverLSA == DriverCase("LSA")

\* if not path.isfile(fpath): with h5py.File(fpath, mode='w') as f: run_solve_hopf(...)
DriverHopf == DriverCase("Hopf")

\* if not path.isfile(fpath): with sf.StateFile(res_lamp, fpath, mode='w') as f:
\* run_large_amp_model(...)
DriverLargeAmp == DriverCase("LargeAmp")

\* emods = [...]; SIGNALS = postproc_gw(fpath, res_lamp, emods_cov, emods_bod)
DriverPostproc ==
    /\ dr_stage = "postproc"
    /\ dr_visited' = [dr_visited EXCEPT !.postproc = PostprocCases]
    /\ dr_stage' = "done"
    /\ UNCHANGED <<dr_ii, dr_jj, dr_files>>
    /\ UNCHANGED NotDriver

DriverNext ==
    \/ DriverLSA
    \/ DriverHopf
    \/ DriverLargeAmp
    \/ DriverPostproc

(***************************************************************************)
(* libsetup.load_hopf                                                      *)
(***************************************************************************)
ECOV == 5000 * 10
EBODY == 5000 * 10

MeshPaths == {"mesh/M5_CB_GA3.msh", "mesh/BC-dcov5.00e-02-cl1.00.xml", "mesh/vf-square.xml"}
SepMethods == {"fixed", "smoothmin", "fluid_sep_other"}
SepVertLabels == {"separation", "separation-inf", "separation-sup"}

LoadArgs ==
    { [mesh_path |-> m, sep_method |-> sm, sep_vert_label |-> l] :
        m \in MeshPaths, sm \in SepMethods, l \in SepVertLabels }

\* dynamical_fluidtype_from_sep_method: the pair of classes, or ValueError
DynamicalFluidtypeMut(sep_method) ==
    CASE sep_method = "fixed" ->
            [raised |-> FALSE, FluidType |-> "dfmd.BernoulliFixedSep",
             LinFluidType |-> "dfmd.LinearizedBernoulliFixedSep"]
      [] sep_method = "smoothmin" ->
            [raised |-> FALSE, FluidType |-> "dfmd.BernoulliSmoothMinSep",
             LinFluidType |-> "dfmd.LinearizedBernoulliFixedSep"]
      [] OTHER ->
            [raised |-> TRUE, FluidType |-> "", LinFluidType |-> ""]
DynamicalFluidtype(sep_method) ==
    CASE sep_method = "fixed" ->
            [raised |-> FALSE, FluidType |-> "dfmd.BernoulliFixedSep",
             LinFluidType |-> "dfmd.LinearizedBernoulliFixedSep"]
      [] sep_method = "smoothmin" ->
            [raised |-> FALSE, FluidType |-> "dfmd.BernoulliSmoothMinSep",
             LinFluidType |-> "dfmd.LinearizedBernoulliSmoothMinSep"]
      [] OTHER ->
            [raised |-> TRUE, FluidType |-> "", LinFluidType |-> ""]

\* kwargs = {'fsi_facet_labels': ('pressure',), 'fixed_facet_labels': ('fixed',),
\*           'separation_vertex_label': sep_vert_label}
Kwargs(sep_vert_label) ==
    [fsi_facet_labels |-> <<"pressure">>, fixed_facet_labels |-> <<"fixed">>,
     separation_vertex_label |-> sep_vert_label]

DefaultProps == [emod |-> 0, standard |-> FALSE]

\* load.load_dynamical_fsi_model(mesh_path, None, SolidType=..., FluidType=..., **kwargs)
LoadDynamicalFsiModel(mesh_path, SolidType, FluidType, kwargs) ==
    [loaded |-> TRUE, mesh |-> mesh_path, solid |-> SolidType, fluid |-> FluidType,
     kwargs |-> kwargs, props |-> DefaultProps]

NoModel ==
    [loaded |-> FALSE, mesh |-> "", solid |-> "", fluid |-> "", kwargs |-> Kwargs(""),
     props |-> DefaultProps]

\* libsetup.set_props(props, region_to_dofs, res): emod set to ECOV, then to
\* EBODY, then the constant properties
SetPropsStandard(props) == [props EXCEPT !.emod = EBODY, !.standard = TRUE]

NoTypes == [raised |-> FALSE, FluidType |-> "", LinFluidType |-> ""]
NoHopfModel == [built |-> FALSE, res |-> NoModel, dres |-> NoModel]

LoadIdle ==
    /\ lh_pc = "idle"
    /\ lh_args = [mesh_path |-> "", sep_method |-> "", sep_vert_label |-> ""]
    /\ lh_types = NoTypes
    /\ lh_res = NoModel
    /\ lh_dres = NoModel
    /\ lh_props = DefaultProps
    /\ lh_hopf = NoHopfModel

LoadInit ==
    /\ lh_pc = "types"
    /\ lh_args \in LoadArgs
    /\ lh_types = NoTypes
    /\ lh_res = NoModel
    /\ lh_dres = NoModel
    /\ lh_props = DefaultProps
    /\ lh_hopf = NoHopfModel

\* FluidType, LinFluidType = dynamical_fluidtype_from_sep_method(sep_method)
LoadFluidTypes ==
    /\ lh_pc = "types"
    /\ lh_types' = DynamicalFluidtype(lh_args.sep_method)
    /\ lh_pc' = IF lh_types'.raised THEN "raised" ELSE "load_res"
    /\ UNCHANGED <<lh_args, lh_res, lh_dres, lh_props, lh_hopf>>
    /\ UNCHANGED NotLoad

\* res = load.load_dynamical_fsi_model(..., SolidType=dsmd.KelvinVoigt, FluidType=FluidType, ...)
LoadRes ==
    /\ lh_pc = "load_res"
    /\ lh_res' = LoadDynamicalFsiModel(lh_args.mesh_path, "dsmd.KelvinVoigt",
                                       lh_types.FluidType, Kwargs(lh_args.sep_vert_label))
    /\ lh_pc' = "load_dres"
    /\ UNCHANGED <<lh_args, lh_types, lh_dres, lh_props, lh_hopf>>
    /\ UNCHANGED NotLoad

\* dres = load.load_dynamical_fsi_model(..., SolidType=dsmd.LinearizedKelvinVoigt,
\*                                      FluidType=LinFluidType, ...)
LoadDres ==
    /\ lh_pc = "load_dres"
    /\ lh_dres' = LoadDynamicalFsiModel(lh_args.mesh_path, "dsmd.LinearizedKelvinVoigt",
                                        lh_types.LinFluidType, Kwargs(lh_args.sep_vert_label))
    /\ lh_pc' = "set_props"
    /\ UNCHANGED <<lh_args, lh_types, lh_res, lh_props, lh_hopf>>
    /\ UNCHANGED NotLoad

\* _props = set_props(res.props.copy(), _region_to_dofs, res);
\* res.set_props(_props); dres.set_props(_props)
LoadSetProps ==
    /\ lh_pc = "set_props"
    /\ lh_props' = SetPropsStandard(lh_res.props)
    /\ lh_res' = [lh_res EXCEPT !.props = lh_props']
    /\ lh_dres' = [lh_dres EXCEPT !.props = lh_props']
    /\ lh_pc' = "hopf_model"
    /\ UNCHANGED <<lh_args, lh_types, lh_hopf>>
    /\ UNCHANGED NotLoad

\* res_hopf = libhopf.HopfModel(res, dres); return res_hopf, res, dres
LoadHopfModel ==
    /\ lh_pc = "hopf_model"
    /\ lh_hopf' = [built |-> TRUE, res |-> lh_res, dres |-> lh_dres]
    /\ lh_pc' = "done"
    /\ UNCHANGED <<lh_args, lh_types, lh_res, lh_dres, lh_props>>
    /\ UNCHANGED NotLoad

LoadNext ==
    \/ LoadFluidTypes
    \/ LoadRes
    \/ LoadDres
    \/ LoadSetProps
    \/ LoadHopfModel

(***************************************************************************)
(* The objective of run_inv_opt.                                           *)
(*                                                                         *)
(* The functional classes and their operators are libfunctionals'; the     *)
(* rules of the algebra (value and derivative of add, sub, mul, truediv,   *)
(* pow, constants as zero-derivative leaves) are taken from its            *)
(* specification.  The composition is run_inv_opt's.  Numbers are exact    *)
(* rationals [n, d] with d > 0, in lowest terms.                           *)
(***************************************************************************)
MaxLeaf == 1            \* bound on the leaf values and leaf derivatives drawn
MaxAlpha == 2           \* bound on the regularization weight alpha drawn
MaxC == 1               \* bound on the constant c = 2*pi*omega_ref drawn

RECURSIVE Gcd(_, _)
Gcd(a, b) == IF b = 0 THEN a ELSE Gcd(b, a % b)

Rat(n, d) ==
    LET g == Gcd(Abs(n), Abs(d))
        sgn == IF d < 0 THEN -1 ELSE 1
    IN  [n |-> sgn * (n \div g), d |-> sgn * (d \div g)]

RInt(k) == [n |-> k, d |-> 1]
RAdd(a, b) == Rat(a.n * b.d + b.n * a.d, a.d * b.d)
RSub(a, b) == Rat(a.n * b.d - b.n * a.d, a.d * b.d)
RMul(a, b) == Rat(a.n * b.n, a.d * b.d)
RDiv(a, b) == Rat(a.n * b.d, a.d * b.n)
RECURSIVE RPow(_, _)
RPow(a, k) == IF k = 0 THEN RInt(1) ELSE RMul(a, RPow(a, k - 1))

\* nodes of a composed functional
Leaf(name) == [op |-> "leaf", name |-> name]
Const(r) == [op |-> "const", val |-> r]
Node(op, a, b) == [op |-> op, a |-> a, b |-> b]

\* evaluate(): the value of a node for given leaf values
RECURSIVE Eval(_, _)
Eval(f, lv) ==
    CASE f.op = "leaf"    -> RInt(lv[f.name])
      [] f.op = "const"   -> f.val
      [] f.op = "add"     -> RAdd(Eval(f.a, lv), Eval(f.b, lv))
      [] f.op = "sub"     -> RSub(Eval(f.a, lv), Eval(f.b, lv))
      [] f.op = "mul"     -> RMul(Eval(f.a, lv), Eval(f.b, lv))
      [] f.op = "truediv" -> RDiv(Eval(f.a, lv), Eval(f.b, lv))
      [] f.op = "pow"     -> RPow(Eval(f.a, lv), f.b.val.n)

\* a derivative of a node (with respect to state, parameters or amplitude)
\* for given leaf values and the leaves' derivatives of that kind
RECURSIVE Deriv(_, _, _)
Deriv(f, lv, dlv) ==
    CASE f.op = "leaf"    -> RInt(dlv[f.name])
      [] f.op = "const"   -> RInt(0)
      [] f.op = "add"     -> RAdd(Deriv(f.a, lv, dlv), Deriv(f.b, lv, dlv))
      [] f.op = "sub"     -> RSub(Deriv(f.a, lv, dlv), Deriv(f.b, lv, dlv))
      [] f.op = "mul"     -> RAdd(RMul(Deriv(f.a, lv, dlv), Eval(f.b, lv)),
                                  RMul(Eval(f.a, lv), Deriv(f.b, lv, dlv)))
      [] f.op = "truediv" -> RDiv(RSub(RMul(Deriv(f.a, lv, dlv), Eval(f.b, lv)),
                                       RMul(Eval(f.a, lv), Deriv(f.b, lv, dlv))),
                                  RMul(Eval(f.b, lv), Eval(f.b, lv)))
      [] f.op = "pow"     -> RMul(RMul(f.b.val, RPow(Eval(f.a, lv), f.b.val.n - 1)),
                                  Deriv(f.a, lv, dlv))

\* std_omega = 10.0
StdOmega == 10

\* func_omega = libfuncs.AbsOnsetFrequencyFunctional(res_hopf)
FuncOmega == Leaf("omega")
\* func_gw_err = libfuncs.GlottalWidthErrorFunctional(res_hopf, ...)
FuncGwErr == Leaf("gw_err")
\* func_egrad_norm = alpha * libfuncs.ModulusGradientNormSqr(res_hopf)
FuncEgradNorm(alpha) == Node("mul", Const(RInt(alpha)), Leaf("egrad"))
\* func_freq_err = 1/std_omega * (func_omega - 2*np.pi*omega_ref) ** 2
FuncFreqErrMut(c) ==
    Node("pow", Node("mul", Const(Rat(1, StdOmega)),
                     Node("sub", FuncOmega, Const(RInt(c)))), Const(RInt(2)))
FuncFreqErr(c) ==
    Node("mul", Const(Rat(1, StdOmega)),
         Node("pow", Node("sub", FuncOmega, Const(RInt(c))), Const(RInt(2))))
\* func = func_gw_err + func_freq_err + func_egrad_norm
Func(alpha, c) == Node("add", Node("add", FuncGwErr, FuncFreqErr(c)), FuncEgradNorm(alpha))

LeafNames == {"omega", "gw_err", "egrad"}
LeafValues == [LeafNames -> (-MaxLeaf)..MaxLeaf]
Kinds == {"dstate", "dprops", "dcamp"}

NoLeaves == [l \in LeafNames |-> 0]
NoFunc == [func |-> Const(RInt(0)), func_egrad_norm |-> Const(RInt(0))]
NoFnOut == [what |-> "none", val |-> RInt(0)]

FuncIdle ==
    /\ fn_pc = "idle"
    /\ fn_par = [alpha |-> 0, c |-> 0]
    /\ fn_func = NoFunc
    /\ fn_leaf = NoLeaves
    /\ fn_dleaf = NoLeaves
    /\ fn_kind = "none"
    /\ fn_out = NoFnOut

FuncInit ==
    /\ fn_pc = "compose"
    /\ fn_par \in { [alpha |-> a, c |-> c] : a \in 0..MaxAlpha, c \in 0..MaxC }
    /\ fn_func = NoFunc
    /\ fn_leaf = NoLeaves
    /\ fn_dleaf = NoLeaves
    /\ fn_kind = "none"
    /\ fn_out = NoFnOut

\* run_inv_opt: the functionals are composed
FuncCompose ==
    /\ fn_pc = "compose"
    /\ fn_func' = [func |-> Func(fn_par.alpha, fn_par.c),
                   func_egrad_norm |-> FuncEgradNorm(fn_par.alpha)]
    /\ fn_pc' = "bind"
    /\ UNCHANGED <<fn_par, fn_leaf, fn_dleaf, fn_kind, fn_out>>
    /\ UNCHANGED NotFunc

\* set_state / set_props / set_camp on the functional: the leaves take the
\* values they have at the bound Hopf state
FuncBind ==
    /\ fn_pc = "bind"
    /\ fn_leaf' \in LeafValues
    /\ fn_pc' = "bound"
    /\ UNCHANGED <<fn_par, fn_func, fn_dleaf, fn_kind, fn_out>>
    /\ UNCHANGED NotFunc

\* func.assem_g()
FuncAssemG ==
    /\ fn_pc = "bound"
    /\ fn_out' = [what |-> "g", val |-> Eval(fn_func.func, fn_leaf)]
    /\ fn_pc' = "assembled"
    /\ UNCHANGED <<fn_par, fn_func, fn_leaf, fn_dleaf, fn_kind>>
    /\ UNCHANGED NotFunc

\* func.assem_dg_dstate() / assem_dg_dprops() / assem_dg_dcamp()
FuncAssemDg ==
    /\ fn_pc = "bound"
    /\ fn_kind' \in Kinds
    /\ fn_dleaf' \in LeafValues
    /\ fn_out' = [what |-> "dg", val |-> Deriv(fn_func.func, fn_leaf, fn_dleaf')]
    /\ fn_pc' = "assembled"
    /\ UNCHANGED <<fn_par, fn_func, fn_leaf>>
    /\ UNCHANGED NotFunc

FuncNext ==
    \/ FuncCompose
    \/ FuncBind
    \/ FuncAssemG
    \/ FuncAssemDg

(***************************************************************************)
(* main_hopf.py: Newton solve of the Hopf system on                        *)
(* linear_subproblem_hopf.                                                 *)
(*                                                                         *)
(* nleq.newton_solve is a plain Newton iteration: for each iterate it      *)
(* calls linear_subproblem_hopf(x_n), takes the residual from assem_res(), *)
(* stops when its norm meets the tolerance or the iteration cap is         *)
(* reached, and otherwise calls solve(res_n) once and updates the iterate. *)
(* A KSP of type PREONLY applies its preconditioner once; the LU           *)
(* preconditioner is the factorization computed at set-up.                 *)
(***************************************************************************)
\* newton_params = {'maximum_iterations': 20}
MaximumIterations == 20

NoAssembled == [at |-> -1, bc |-> FALSE]
NoKsp == [ksp_type |-> "none", pc_type |-> "none", operators |-> NoAssembled,
          factorizations |-> 0, krylov_its |-> 0, solved |-> FALSE]

\* hopf_res(xhopf_n), hopf_jac(xhopf_n): assembled at iterate n
Assemble(n) == [at |-> n, bc |-> FALSE]

\* apply_dirichlet_vec(res_n), apply_dirichlet_mat(jac_n)
ApplyDirichletVec(res_n) == [res_n EXCEPT !.bc = TRUE]
ApplyDirichletMatMut(jac_n) == jac_n
ApplyDirichletMat(jac_n) == [jac_n EXCEPT !.bc = TRUE]

\* ksp.setType(ksp.Type.PREONLY); ksp.setOperators(_jac_n); pc.setType(pc.Type.LU);
\* pc.setUp(); ksp.setUp()
KspSetUp(jac_n) ==
    [ksp_type |-> "preonly", pc_type |-> "lu", operators |-> jac_n,
     factorizations |-> 1, krylov_its |-> 0, solved |-> FALSE]

\* ksp.solve(_rhs_n, _dx_n)
KspSolve(ksp) == [ksp EXCEPT !.solved = TRUE]

NewtonIdle ==
    /\ nw_pc = "idle"
    /\ nw_n = 0
    /\ nw_res = NoAssembled
    /\ nw_jac = NoAssembled
    /\ nw_ksp = NoKsp
    /\ nw_info = [status |-> "none", iterations |-> 0, residual_seen |-> NoAssembled]

NewtonInit ==
    /\ nw_pc = "hopf_res"
    /\ nw_n = 0
    /\ nw_res = NoAssembled
    /\ nw_jac = NoAssembled
    /\ nw_ksp = NoKsp
    /\ nw_info = [status |-> "running", iterations |-> 0, residual_seen |-> NoAssembled]

\* res_n = hopf_res(xhopf_n)
SubHopfRes ==
    /\ nw_pc = "hopf_res"
    /\ nw_res' = Assemble(nw_n)
    /\ nw_pc' = "hopf_jac"
    /\ UNCHANGED <<nw_n, nw_jac, nw_ksp, nw_info>>
    /\ UNCHANGED NotNewton

\* jac_n = hopf_jac(xhopf_n)
SubHopfJac ==
    /\ nw_pc = "hopf_jac"
    /\ nw_jac' = Assemble(nw_n)
    /\ nw_pc' = "dirichlet_vec"
    /\ UNCHANGED <<nw_n, nw_res, nw_ksp, nw_info>>
    /\ UNCHANGED NotNewton

\* apply_dirichlet_vec(res_n)
SubDirichletVec ==
    /\ nw_pc = "dirichlet_vec"
    /\ nw_res' = ApplyDirichletVec(nw_res)
    /\ nw_pc' = "dirichlet_mat"
    /\ UNCHANGED <<nw_n, nw_jac, nw_ksp, nw_info>>
    /\ UNCHANGED NotNewton

\* apply_dirichlet_mat(jac_n); return assem_res, solve
SubDirichletMat ==
    /\ nw_pc = "dirichlet_mat"
    /\ nw_jac' = ApplyDirichletMat(nw_jac)
    /\ nw_pc' = "assem_res"
    /\ UNCHANGED <<nw_n, nw_res, nw_ksp, nw_info>>
    /\ UNCHANGED NotNewton

\* newton_solve takes assem_res() (which returns res_n) and decides:
\* converged, iteration cap reached, or one more step
NewtonAssemRes ==
    /\ nw_pc = "assem_res"
    /\ \E met \in BOOLEAN :
         /\ nw_info' = [status |-> IF met THEN "converged"
                                   ELSE IF nw_n >= MaximumIterations THEN "cap_reached"
                                   ELSE "running",
                        iterations |-> nw_n, residual_seen |-> nw_res]
         /\ nw_pc' = IF met \/ nw_n >= MaximumIterations THEN "done" ELSE "ksp_setup"
    /\ UNCHANGED <<nw_n, nw_res, nw_jac, nw_ksp>>
    /\ UNCHANGED NotNewton

\* solve(rhs_n): a new KSP on jac_n, set up
SubKspSetUp ==
    /\ nw_pc = "ksp_setup"
    /\ nw_ksp' = KspSetUp(nw_jac)
    /\ nw_pc' = "ksp_solve"
    /\ UNCHANGED <<nw_n, nw_res, nw_jac, nw_info>>
    /\ UNCHANGED NotNewton

\* ksp.solve(_rhs_n, _dx_n); dx_n returned; newton_solve updates the iterate
SubKspSolve ==
    /\ nw_pc = "ksp_solve"
    /\ nw_ksp' = KspSolve(nw_ksp)
    /\ nw_n' = nw_n + 1
    /\ nw_pc' = "hopf_res"
    /\ UNCHANGED <<nw_res, nw_jac, nw_info>>
    /\ UNCHANGED NotNewton

NewtonNext ==
    \/ SubHopfRes
    \/ SubHopfJac
    \/ SubDirichletVec
    \/ SubDirichletMat
    \/ NewtonAssemRes
    \/ SubKspSetUp
    \/ SubKspSolve

(***************************************************************************)
(* Stress-test __main__ with the contents of the files under               *)
(* out/stress_test, over several runs of the script.                       *)
(*                                                                         *)
(* The output directory starts empty.  A run walks the three stage loops;  *)
(* the LSA stage runs run_lsa with warnings raised as errors, so a call    *)
(* can end the run after its file has been created.  A later run of the    *)
(* script starts from the files the earlier runs left.  What the solvers   *)
(* return for a case is fixed for the whole campaign (st_world).           *)
(***************************************************************************)
MaxRuns == 2            \* bound on the number of runs of the script

\* the solver outcomes drawn: which cases have an onset in the sweep, and
\* whether solve_hopf_newton converges
WorldKinds == {"stable", "onset", "soft"}
Worlds == [kind : WorldKinds, converged : BOOLEAN]

\* bound: index (one-based) of the last stable sweep point of a case with an onset
OnsetAt == 3

\* eiginfo[0].real for psub in PSUBS (libhopf.max_real_omega)
MaxRealOmega(world, case) ==
    LET onset == \/ world.kind = "onset"
                 \/ (world.kind = "soft" /\ case[1] = EMODS[1])
    IN  [k \in DOMAIN PSUBS |->
            IF ~onset THEN -1
            ELSE IF k < OnsetAt THEN -1 ELSE IF k = OnsetAt THEN 0 ELSE 1]

\* the groups run_lsa creates first and the datasets it writes after the sweep
LsaGroups == {"eigvec_real", "eigvec_imag", "fixedpoint"}
LsaDatasets == {"psub", "omega_real", "omega_imag"}

\* where an error (or a warning raised as an error) ends run_lsa
AbortPoints == {"eigs", "append"}

\* the LSA file as run_lsa leaves it: complete, or cut short at an abort point
LsaContent(world, case, upto) ==
    IF upto = "eigs"
    THEN [names |-> LsaGroups, psub |-> <<>>, omega_real |-> <<>>]
    ELSE [names |-> LsaGroups \cup LsaDatasets, psub |-> PSUBS,
          omega_real |-> MaxRealOmega(world, case)]

\* block labels of the dynamical model state and of the Hopf state
\* (state, mode_real, mode_imag, psub, omega)
StateLabels == <<"u", "v", "q", "p">>
ModeRealLabels == <<"u_mode_real", "v_mode_real", "q_mode_real", "p_mode_real">>
ModeImagLabels == <<"u_mode_imag", "v_mode_imag", "q_mode_imag", "p_mode_imag">>
HopfLabels == StateLabels \o ModeRealLabels \o ModeImagLabels \o <<"psub", "omega">>

\* block labels of the transient model state
TransientLabels == {"u", "v", "a", "q", "p"}

\* the block values of a solved Hopf state: every block its own value, the
\* critical parameter inside the bracket when converged, else the guess's
BlockValue(label, psub) ==
    CASE label = "psub"  -> psub
      [] label = "omega" -> 7
      [] OTHER -> (CHOOSE k \in DOMAIN HopfLabels : HopfLabels[k] = label) + 10

\* xhopf_n of libhopf.solve_hopf_newton(res_hopf, xhopf_0)
SolveHopfNewton(world, guess) ==
    LET psub == IF world.converged THEN (guess.psubs[1] + guess.psubs[2]) \div 2
                ELSE guess.psubs[2]
    IN  [k \in DOMAIN HopfLabels |->
            [label |-> HopfLabels[k], val |-> BlockValue(HopfLabels[k], psub)]]

\* the Hopf file as run_solve_hopf leaves it, given omega_real of the LSA file
HopfContent(world, case, omegas_real) ==
    LET is_hopf_bif == IsHopfBif(omegas_real)
    IN  IF CountTrue(is_hopf_bif) = 0
        THEN [state |-> [exists |-> FALSE, val |-> <<>>],
              props |-> [exists |-> FALSE, val |-> NoProps]]
        ELSE LET idx_hopf == IndexTrue(is_hopf_bif)
                 xhopf_0  == GuessArgs(idx_hopf, omegas_real)
             IN  [state |-> [exists |-> TRUE, val |-> SolveHopfNewton(world, xhopf_0)],
                  props |-> [exists |-> TRUE,
                             val |-> [emod_cov |-> case[1], emod_bod |-> case[2]]]]

\* the Hopf file when run_solve_hopf ends in an error before writing
EmptyHopfFile ==
    [state |-> [exists |-> FALSE, val |-> <<>>],
     props |-> [exists |-> FALSE, val |-> NoProps]]

\* ponset = xhopf['psub'][0]
ReadPonset(xhopf) == (CHOOSE k \in DOMAIN xhopf : xhopf[k].label = "psub")

\* xfp = xhopf[:4]
ReadFixedPointMut(xhopf) == SubSeq(xhopf, 2, 5)
ReadFixedPoint(xhopf) == SubSeq(xhopf, 1, 4)

\* res.state0 holds whatever the transient model was left with
Stale == 9

\* ini_state = res.state0.copy(); ini_state[['u', 'v', 'q', 'p']] = xfp;
\* ini_state['a'][:] = 0.0
IniState(xfp) ==
    LET keys == <<"u", "v", "q", "p">>
    IN  [l \in TransientLabels |->
            IF l = "a" THEN 0
            ELSE IF \E k \in DOMAIN keys : keys[k] = l /\ k \in DOMAIN xfp
                 THEN xfp[CHOOSE k \in DOMAIN keys : keys[k] = l].val
                 ELSE Stale]

\* control['psub'][:] = ponset + 100.0*10
ControlPsubMut(ponset) == ponset + 100
ControlPsub(ponset) == ponset + 100 * 10

\* the LargeAmp file as run_large_amp_model leaves it, given the Hopf file
LargeAmpContent(hopf_file) ==
    IF hopf_file.state.exists
    THEN LET xhopf  == hopf_file.state.val
             ponset == xhopf[ReadPonset(xhopf)].val
             xfp    == ReadFixedPoint(xhopf)
         IN  [integrated |-> TRUE, xfp |-> xfp, ini_state |-> IniState(xfp),
              psub |-> ControlPsub(ponset)]
    ELSE [integrated |-> FALSE, xfp |-> <<>>, ini_state |-> IniState(<<>>), psub |-> 0]

\* if not path.isfile(fpath)
ShouldRunMut(fpath, files) == TRUE
ShouldRun(fpath, files) == fpath \notin files

\* the directory after fpath is opened with mode='w' and left holding content
WriteFile(fs, fpath, content) ==
    [p \in DOMAIN fs \cup {fpath} |-> IF p = fpath THEN content ELSE fs[p]]

NoStep == [stage |-> "none", case |-> <<0, 0>>, existed |-> FALSE, ran |-> FALSE,
           read |-> "none"]
NoHandled == [LSA |-> {}, Hopf |-> {}, LargeAmp |-> {}]

StressIdle ==
    /\ st_run = 0
    /\ st_stage = "idle"
    /\ st_ii = 0
    /\ st_jj = 0
    /\ st_world = [kind |-> "stable", converged |-> FALSE]
    /\ st_fs = << >>
    /\ st_handled = NoHandled
    /\ st_last = NoStep

StressInit ==
    /\ st_run = 1
    /\ st_stage = "LSA"
    /\ st_ii = 1
    /\ st_jj = 1
    /\ st_world \in Worlds
    /\ st_fs = << >>
    /\ st_handled = NoHandled
    /\ st_last = NoStep

\* the loops advance to the next case, or to the next stage after the last
StressAdvance(stage) ==
    IF st_jj < InnerLen(st_ii)
    THEN /\ st_jj' = st_jj + 1
         /\ UNCHANGED <<st_ii, st_stage>>
    ELSE IF st_ii < Len(EMODS)
         THEN /\ st_ii' = st_ii + 1
              /\ st_jj' = 1
              /\ UNCHANGED st_stage
         ELSE /\ st_ii' = 1
              /\ st_jj' = 1
              /\ st_stage' = StageAfter(stage)

\* an exception leaves the script
StressRaise ==
    /\ st_stage' = "aborted"
    /\ UNCHANGED <<st_ii, st_jj>>

\* LSA stage, one case: if not path.isfile(fpath): with h5py.File(fpath,
\* mode='w') as f: run_lsa(f, res_dyn, emod_cov, emod_bod)
StressLSA ==
    /\ st_stage = "LSA"
    /\ LET case  == CaseAt(st_ii, st_jj)
           fpath == FPath("LSA", case[1], case[2])
           run   == ShouldRun(fpath, DOMAIN st_fs)
       IN  /\ st_fs' = IF run THEN WriteFile(st_fs, fpath, LsaContent(st_world, case, "end"))
                       ELSE st_fs
           /\ st_handled' = [st_handled EXCEPT !.LSA = @ \cup {case}]
           /\ st_last' = [stage |-> "LSA", case |-> case, existed |-> fpath \in DOMAIN st_fs,
                          ran |-> run, read |-> "none"]
    /\ StressAdvance("LSA")
    /\ UNCHANGED <<st_run, st_world>>
    /\ UNCHANGED NotStress

\* LSA stage, one case, run_lsa ending in an error (warnings.simplefilter('error'))
StressLSAError ==
    /\ st_stage = "LSA"
    /\ LET case  == CaseAt(st_ii, st_jj)
           fpath == FPath("LSA", case[1], case[2])
       IN  /\ ShouldRun(fpath, DOMAIN st_fs)
           /\ \E upto \in AbortPoints :
                  st_fs' = WriteFile(st_fs, fpath, LsaContent(st_world, case, upto))
           /\ st_handled' = [st_handled EXCEPT !.LSA = @ \cup {case}]
           /\ st_last' = [stage |-> "LSA", case |-> case, existed |-> FALSE,
                          ran |-> TRUE, read |-> "none"]
    /\ StressRaise
    /\ UNCHANGED <<st_run, st_world>>
    /\ UNCHANGED NotStress

\* what reading f_lsa['omega_real'] of the case's LSA file meets
LsaRead(fs, lsa_fpath) ==
    IF lsa_fpath \notin DOMAIN fs THEN "no_file"
    ELSE IF "omega_real" \notin fs[lsa_fpath].names THEN "no_dataset"
    ELSE "ok"

\* Hopf stage, one case: if not path.isfile(fpath): with h5py.File(fpath,
\* mode='w') as f: run_solve_hopf(f, res_hopf, emod_cov, emod_bod)
StressHopf ==
    /\ st_stage = "Hopf"
    /\ LET case      == CaseAt(st_ii, st_jj)
           fpath     == FPath("Hopf", case[1], case[2])
           lsa_fpath == FPath("LSA", case[1], case[2])
           run       == ShouldRun(fpath, DOMAIN st_fs)
           read      == IF run THEN LsaRead(st_fs, lsa_fpath) ELSE "none"
       IN  /\ st_handled' = [st_handled EXCEPT !.Hopf = @ \cup {case}]
           /\ st_last' = [stage |-> "Hopf", case |-> case, existed |-> fpath \in DOMAIN st_fs,
                          ran |-> run, read |-> read]
           /\ IF ~run
              THEN /\ st_fs' = st_fs
                   /\ StressAdvance("Hopf")
              ELSE IF read = "ok"
                   THEN /\ st_fs' = WriteFile(st_fs, fpath,
                                        HopfContent(st_world, case, st_fs[lsa_fpath].omega_real))
                        /\ StressAdvance("Hopf")
                   ELSE /\ st_fs' = WriteFile(st_fs, fpath, EmptyHopfFile)
                        /\ StressRaise
    /\ UNCHANGED <<st_run, st_world>>
    /\ UNCHANGED NotStress

\* LargeAmp stage, one case: if not path.isfile(fpath): with sf.StateFile(
\* res_lamp, fpath, mode='w') as f: run_large_amp_model(f, res_lamp, ...)
StressLargeAmp ==
    /\ st_stage = "LargeAmp"
    /\ LET case       == CaseAt(st_ii, st_jj)
           fpath      == FPath("LargeAmp", case[1], case[2])
           hopf_fpath == FPath("Hopf", case[1], case[2])
           run        == ShouldRun(fpath, DOMAIN st_fs)
       IN  /\ st_handled' = [st_handled EXCEPT !.LargeAmp = @ \cup {case}]
           /\ st_last' = [stage |-> "LargeAmp", case |-> case,
                          existed |-> fpath \in DOMAIN st_fs, ran |-> run, read |-> "none"]
           /\ IF ~run
              THEN /\ st_fs' = st_fs
                   /\ StressAdvance("LargeAmp")
              ELSE IF hopf_fpath \in DOMAIN st_fs
                   THEN /\ st_fs' = WriteFile(st_fs, fpath, LargeAmpContent(st_fs[hopf_fpath]))
                        /\ StressAdvance("LargeAmp")
                   ELSE /\ st_fs' = WriteFile(st_fs, fpath, LargeAmpContent(EmptyHopfFile))
                        /\ StressRaise
    /\ UNCHANGED <<st_run, st_world>>
    /\ UNCHANGED NotStress

\* the script is started again on the directory the earlier runs left
StressRerun ==
    /\ st_stage \in {"aborted", "postproc"}
    /\ st_run < MaxRuns
    /\ st_run' = st_run + 1
    /\ st_stage' = "LSA"
    /\ st_ii' = 1
    /\ st_jj' = 1
    /\ st_handled' = NoHandled
    /\ st_last' = NoStep
    /\ UNCHANGED <<st_world, st_fs>>
    /\ UNCHANGED NotStress

StressNext ==
    \/ StressLSA
    \/ StressLSAError
    \/ StressHopf
    \/ StressLargeAmp
    \/ StressRerun

(***************************************************************************)
(* set_props of the stress-test driver, called for one case after another  *)
(* on the props vector of the same model (run_lsa, run_solve_hopf and      *)
(* run_large_amp_model each pass res.props and bind the result back).      *)
(*                                                                         *)
(* The mesh has NDofs scalar dofs; the cover and the body are any two      *)
(* sets of them (they overlap on the interface and need not cover the      *)
(* mesh).  The cases are those the driver makes of the first NMods moduli. *)
(***************************************************************************)
NDofs == 3              \* bound on the number of scalar dofs of the mesh
NMods == 2              \* bound on the number of moduli the cases are made of
MaxCalls == 2           \* bound on the number of cases processed in a row

Dofs == 1..NDofs

\* celllabel_to_dofs: the dofs of the cover and of the body
Meshes == [cover : SUBSET Dofs, body : SUBSET Dofs]

\* (emod_cov, emod_bod) of the cases of the stage loops
PropsCases == { <<EMODS[jj], EMODS[ii]>> : ii \in 1..NMods, jj \in 1..NMods }
                  \cap PostprocCases

\* the props vector of a freshly loaded model
FreshProps == [emod |-> [d \in Dofs |-> 0], eta |-> 0, rho |-> 0]

\* setup.set_constant_props(props, celllabel_to_dofs, res_dyn)
SetConstantProps(props) == [props EXCEPT !.eta = 5, !.rho = 1]

\* set_props(props, celllabel_to_dofs, emod_cov, emod_bod)
SetPropsMut(props, celllabel_to_dofs, emod_cov, emod_bod) ==
    LET props_c  == SetConstantProps(props)
        dofs_cov == celllabel_to_dofs.cover
        dofs_bod == celllabel_to_dofs.body
        emod_1   == [d \in Dofs |-> IF d \in dofs_cov THEN emod_cov ELSE props_c.emod[d]]
        emod_2   == [d \in Dofs |-> IF d \in dofs_bod THEN emod_bod ELSE emod_1[d]]
    IN  [props_c EXCEPT !.emod = emod_2]
SetProps(props, celllabel_to_dofs, emod_cov, emod_bod) ==
    LET props_c    == SetConstantProps(props)
        dofs_cov   == celllabel_to_dofs.cover
        dofs_bod   == celllabel_to_dofs.body
        dofs_share == dofs_cov \cap dofs_bod
        \* props['emod'].array[dofs_cov] = emod_cov
        emod_1     == [d \in Dofs |-> IF d \in dofs_cov THEN emod_cov ELSE props_c.emod[d]]
        \* props['emod'].array[dofs_bod] = emod_bod
        emod_2     == [d \in Dofs |-> IF d \in dofs_bod THEN emod_bod ELSE emod_1[d]]
        \* props['emod'].array[dofs_share] = 1/2*(emod_cov + emod_bod)
        emod_3     == [d \in Dofs |->
                          IF d \in dofs_share THEN (emod_cov + emod_bod) \div 2 ELSE emod_2[d]]
    IN  [props_c EXCEPT !.emod = emod_3]

PropsIdle ==
    /\ sp_pc = "idle"
    /\ sp_mesh = [cover |-> {}, body |-> {}]
    /\ sp_props = FreshProps
    /\ sp_prev = FreshProps
    /\ sp_model = FreshProps
    /\ sp_case = <<0, 0>>
    /\ sp_calls = 0

PropsInit ==
    /\ sp_pc = "set_props"
    /\ sp_mesh \in Meshes
    /\ sp_props = FreshProps
    /\ sp_prev = FreshProps
    /\ sp_model = FreshProps
    /\ sp_case = <<0, 0>>
    /\ sp_calls = 0

\* props = set_props(res.props, celllabel_to_dofs, emod_cov, emod_bod):
\* the props vector of the model is changed in place and returned
PropsSet ==
    /\ sp_pc = "set_props"
    /\ sp_calls < MaxCalls
    /\ \E case \in PropsCases :
           /\ sp_case' = case
           /\ sp_props' = SetProps(sp_props, sp_mesh, case[1], case[2])
    /\ sp_prev' = sp_props
    /\ sp_calls' = sp_calls + 1
    /\ sp_pc' = "bind"
    /\ UNCHANGED <<sp_mesh, sp_model>>
    /\ UNCHANGED NotProps

\* res.set_props(props): the solve of the case uses these props
PropsBind ==
    /\ sp_pc = "bind"
    /\ sp_model' = sp_props
    /\ sp_pc' = "set_props"
    /\ UNCHANGED <<sp_mesh, sp_props, sp_prev, sp_case, sp_calls>>
    /\ UNCHANGED NotProps

PropsNext ==
    \/ PropsSet
    \/ PropsBind

(***************************************************************************)
(* optimize_comp_amp.                                                      *)
(*                                                                         *)
(* Amplitude vectors are objects: oc_heap maps an object to its two        *)
(* components.  The minimizer evaluates the callback _f first at           *)
(* np.array([0.0, 0.0]) and then at trial points of its choosing, and      *)
(* returns as opt_res['x'] one of the points it evaluated.                 *)
(***************************************************************************)
MaxAmp == 1             \* bound on the amplitude components drawn (0..MaxAmp)
MaxEvals == 4           \* bound on the evaluations of _f the minimizer makes

Points == (0..MaxAmp) \X (0..MaxAmp)

\* the objects: the functional's amplitude vector and the copy camp0
FuncCampObj == 1
Camp0Obj == 2
NoObj == 0

\* the start point handed to optimize.minimize
X0 == <<0, 0>>

\* camp.set_vec(x) on the object obj
SetVec(heap, obj, x) == [heap EXCEPT ![obj] = x]

\* camp.copy(): a new object with the same components
Copy(heap, obj, new) == [heap EXCEPT ![new] = heap[obj]]

CampIdle ==
    /\ oc_pc = "idle"
    /\ oc_heap = [o \in {FuncCampObj, Camp0Obj} |-> X0]
    /\ oc_func = NoObj
    /\ oc_camp0 = NoObj
    /\ oc_seen = {}
    /\ oc_evals = 0
    /\ oc_sol = X0
    /\ oc_ret = NoObj

\* on entry the functional holds an amplitude vector with any components
CampInit ==
    /\ oc_pc = "copy"
    /\ \E x \in Points : oc_heap = [o \in {FuncCampObj, Camp0Obj} |->
                                        IF o = FuncCampObj THEN x ELSE X0]
    /\ oc_func = FuncCampObj
    /\ oc_camp0 = NoObj
    /\ oc_seen = {}
    /\ oc_evals = 0
    /\ oc_sol = X0
    /\ oc_ret = NoObj

\* camp0 = func_gw_err.camp.copy()
CampCopy ==
    /\ oc_pc = "copy"
    /\ oc_heap' = Copy(oc_heap, oc_func, Camp0Obj)
    /\ oc_camp0' = Camp0Obj
    /\ oc_pc' = "minimize"
    /\ UNCHANGED <<oc_func, oc_seen, oc_evals, oc_sol, oc_ret>>
    /\ UNCHANGED NotCamp

\* _f(x): _camp = func_gw_err.camp; _camp.set_vec(x); func_gw_err.set_camp(_camp);
\* return func_gw_err.assem_g(), func_gw_err.assem_dg_dcamp().to_mono_ndarray()
CampEval ==
    /\ oc_pc = "minimize"
    /\ oc_evals < MaxEvals
    /\ \E x \in (IF oc_evals = 0 THEN {X0} ELSE Points) :
           /\ oc_heap' = SetVec(oc_heap, oc_func, x)
           /\ oc_seen' = oc_seen \cup {x}
    /\ oc_func' = oc_func
    /\ oc_evals' = oc_evals + 1
    /\ UNCHANGED <<oc_pc, oc_camp0, oc_sol, oc_ret>>
    /\ UNCHANGED NotCamp

\* opt_res = optimize.minimize(...) returns; camp0.set_vec(opt_res['x']);
\* return camp0
CampReturn ==
    /\ oc_pc = "minimize"
    /\ oc_evals > 0
    /\ \E x \in oc_seen :
           /\ oc_sol' = x
           /\ oc_heap' = SetVec(oc_heap, oc_camp0, x)
    /\ oc_ret' = oc_camp0
    /\ oc_pc' = "done"
    /\ UNCHANGED <<oc_func, oc_camp0, oc_seen, oc_evals>>
    /\ UNCHANGED NotCamp

CampNext ==
    \/ CampCopy
    \/ CampEval
    \/ CampReturn

(***************************************************************************)
(* Specifications: one per component, the other components idle            *)
(***************************************************************************)
InitTaylor ==
    /\ TaylorInit /\ SetupIdle /\ RunIdle /\ DriverIdle /\ LoadIdle
    /\ FuncIdle /\ NewtonIdle /\ StressIdle /\ PropsIdle /\ CampIdle

SpecTaylor == InitTaylor /\ [][TaylorNext]_vars

InitSetup ==
    /\ TaylorIdle /\ SetupInit /\ RunIdle /\ DriverIdle /\ LoadIdle
    /\ FuncIdle /\ NewtonIdle /\ StressIdle /\ PropsIdle /\ CampIdle

SpecSetup == InitSetup /\ [][SetupNext]_vars

InitRun ==
    /\ TaylorIdle /\ SetupIdle /\ RunInit /\ DriverIdle /\ LoadIdle
    /\ FuncIdle /\ NewtonIdle /\ StressIdle /\ PropsIdle /\ CampIdle

SpecRun == InitRun /\ [][RunNext]_vars

\* either driver that solves the Hopf system: setup_hopf_state or run_solve_hopf
InitSolves ==
    /\ TaylorIdle /\ DriverIdle /\ LoadIdle /\ FuncIdle /\ NewtonIdle
    /\ StressIdle /\ PropsIdle /\ CampIdle
    /\ (SetupInit /\ RunIdle) \/ (SetupIdle /\ RunInit)

NextSolves == SetupNext \/ RunNext

SpecSolves == InitSolves /\ [][NextSolves]_vars

InitDriver ==
    /\ TaylorIdle /\ SetupIdle /\ RunIdle /\ DriverInit /\ LoadIdle
    /\ FuncIdle /\ NewtonIdle /\ StressIdle /\ PropsIdle /\ CampIdle

SpecDriver == InitDriver /\ [][DriverNext]_vars

InitLoad ==
    /\ TaylorIdle /\ SetupIdle /\ RunIdle /\ DriverIdle /\ LoadInit
    /\ FuncIdle /\ NewtonIdle /\ StressIdle /\ PropsIdle /\ CampIdle

SpecLoad == InitLoad /\ [][LoadNext]_vars

InitFunc ==
    /\ TaylorIdle /\ SetupIdle /\ RunIdle /\ DriverIdle /\ LoadIdle
    /\ FuncInit /\ NewtonIdle /\ StressIdle /\ PropsIdle /\ CampIdle

SpecFunc == InitFunc /\ [][FuncNext]_vars

InitNewton ==
    /\ TaylorIdle /\ SetupIdle /\ RunIdle /\ DriverIdle /\ LoadIdle
    /\ FuncIdle /\ NewtonInit /\ StressIdle /\ PropsIdle /\ CampIdle

SpecNewton == InitNewton /\ [][NewtonNext]_vars

InitStress ==
    /\ TaylorIdle /\ SetupIdle /\ RunIdle /\ DriverIdle /\ LoadIdle
    /\ FuncIdle /\ NewtonIdle /\ StressInit /\ PropsIdle /\ CampIdle

SpecStress == InitStress /\ [][StressNext]_vars

InitProps ==
    /\ TaylorIdle /\ SetupIdle /\ RunIdle /\ DriverIdle /\ LoadIdle
    /\ FuncIdle /\ NewtonIdle /\ StressIdle /\ PropsInit /\ CampIdle

SpecProps == InitProps /\ [][PropsNext]_vars

InitCamp ==
    /\ TaylorIdle /\ SetupIdle /\ RunIdle /\ DriverIdle /\ LoadIdle
    /\ FuncIdle /\ NewtonIdle /\ StressIdle /\ PropsIdle /\ CampInit

SpecCamp == InitCamp /\ [][CampNext]_vars

(***************************************************************************)
(* Properties                                                              *)
(***************************************************************************)

\* ---- C1 ----------------------------------------------------------------
\* the sweep crosses zero between points k and k+1 (a zero counts as the
\* stable side, as in the code), upwards or downwards
CrossesUp(w, k) == w[k] <= 0 /\ w[k + 1] > 0
CrossesDown(w, k) == w[k] > 0 /\ w[k + 1] <= 0
Crossings(w) == {k \in 1..(Len(w) - 1) : CrossesUp(w, k) \/ CrossesDown(w, k)}
UpCrossings(w) == {k \in 1..(Len(w) - 1) : CrossesUp(w, k)}

\* gen_hopf_initial_guess was handed the bracket (k, k+1) of the sweep w
BracketPassed(w, k) ==
    /\ rs_guess.called
    /\ rs_guess.idx = k - 1
    /\ rs_guess.psubs = <<PSUBS[k], PSUBS[k + 1]>>
    /\ rs_guess.omegas = <<w[k], w[k + 1]>>

RunPastDetection == rs_pc \in {"solve", "write_state", "write_props", "done"}

(* C1 as claimed: when the real part changes sign exactly once between     *)
(* adjacent sweep points, in either direction, run_solve_hopf has handed   *)
(* exactly that pair and its two real parts to gen_hopf_initial_guess by   *)
(* the time it returns.                                                    *)
C1_AnyDirection ==
    (rs_pc = "done" /\ Cardinality(Crossings(rs_omegas_real)) = 1)
        => \E k \in Crossings(rs_omegas_real) : BracketPassed(rs_omegas_real, k)

(* C1 amended: when the real part goes from non-positive to positive       *)
(* exactly once between adjacent sweep points, run_solve_hopf hands        *)
(* exactly that pair (PSUBS[i], PSUBS[i+1]) and the two real parts at      *)
(* those indices to gen_hopf_initial_guess; a sweep with no such upward    *)
(* crossing (its only sign change being downward) gets no bracket and no   *)
(* Hopf solve.                                                             *)
C1_UpwardBracket ==
    /\ (RunPastDetection /\ Cardinality(UpCrossings(rs_omegas_real)) = 1)
          => \A k \in UpCrossings(rs_omegas_real) : BracketPassed(rs_omegas_real, k)
    /\ (rs_pc = "done" /\ UpCrossings(rs_omegas_real) = {})
          => (~rs_guess.called /\ rs_calls = 0)

C1_Witness ==
    /\ rs_pc = "done"
    /\ Cardinality(UpCrossings(rs_omegas_real)) = 1
    /\ rs_guess.called
    /\ rs_guess.idx > 0
    /\ rs_guess.omegas[1] = 0

\* ---- C2 ----------------------------------------------------------------
SelectedEigenvalue == su_omegas[IdxHopf + 1]
GuessComplete == su_pc \in {"hopf_solve", "persist", "done"}
Segments == {"state", "mode_real", "mode_imag", "psub", "omega"}

(* C2 as claimed: when the Newton solve starts, the frequency segment of   *)
(* the guess equals the imaginary part of the selected eigenvalue and      *)
(* every segment has been assigned.                                        *)
C2_OmegaIsImag ==
    GuessComplete => (su_xhopf0.omega = SelectedEigenvalue.im /\ su_assigned = Segments)

(* C2 amended: the frequency segment is the absolute value of the          *)
(* selected eigenvalue's imaginary part in setup_hopf_state (libsetup,     *)
(* test_libfunctionals) and minus that absolute value in main_hopf, so it  *)
(* equals the imaginary part only when that is >= 0 (<= 0 in main_hopf);   *)
(* base state, critical parameter and both eigenmodes are all assigned     *)
(* before the Newton solve starts, and the solve starts from that guess.   *)
C2_OmegaIsAbsImag ==
    /\ GuessComplete =>
          /\ su_xhopf0.omega = IF su_driver = "main_hopf"
                               THEN -Abs(SelectedEigenvalue.im)
                               ELSE Abs(SelectedEigenvalue.im)
          /\ su_assigned = Segments
          /\ su_xhopf0.state = su_fp.state
          /\ su_xhopf0.psub = PSUB
          /\ su_xhopf0.mode_real = [vec |-> IdxHopf + 1, normalized |-> TRUE]
          /\ su_xhopf0.mode_imag = [vec |-> IdxHopf + 1, normalized |-> TRUE]
    /\ su_pc \in {"persist", "done"} => su_hopf.guess = su_xhopf0

C2_Witness ==
    /\ su_pc = "persist"
    /\ su_driver = "libsetup"
    /\ SelectedEigenvalue.im < 0
    /\ su_xhopf0.omega > 0

\* ---- C3 ----------------------------------------------------------------
\* the observed order between step sizes k and k+1 is exactly 2:
\* log(err_hi/err_lo)/log(alpha_hi/alpha_lo) = 2
OrderTwo(rate) ==
    /\ rate.err_lo # 0
    /\ rate.err_hi * rate.alpha_lo * rate.alpha_lo = rate.err_lo * rate.alpha_hi * rate.alpha_hi

ExactlyQuadratic == tc_in.e = 0 /\ tc_in.c # 0

(* C3: for a value function exactly quadratic along dx and the exact       *)
(* directional derivative, errs[k] = alpha_k^2 * |c| at every step size,   *)
(* so every halving of the step divides the error by exactly 4 and every   *)
(* observed convergence rate is 2.                                         *)
C3_QuadraticSecondOrder ==
    (tc_pc = "returned" /\ ExactlyQuadratic /\ tc_in.jscale = 1) =>
        /\ Len(tc_out.errs) = Len(tc_out.alphas)
        /\ Len(tc_out.alphas) >= 2
        /\ \A k \in DOMAIN tc_out.errs :
              tc_out.errs[k] = tc_out.alphas[k] * tc_out.alphas[k] * Abs(tc_in.c)
        /\ \A k \in 1..(Len(tc_out.errs) - 1) : tc_out.errs[k] = 4 * tc_out.errs[k + 1]
        /\ \A k \in DOMAIN tc_out.conv_rates : OrderTwo(tc_out.conv_rates[k])

C3_Witness ==
    /\ tc_pc = "returned"
    /\ ExactlyQuadratic
    /\ tc_in.jscale = 1
    /\ tc_in.d # 0
    /\ tc_in.dx > 1
    /\ tc_out.errs[1] = 64 * Abs(tc_in.c)

HalvingSequence(alphas) ==
    /\ Len(alphas) >= 1
    /\ \A k \in 1..(Len(alphas) - 1) : alphas[k] = 2 * alphas[k + 1]
    /\ \A k \in DOMAIN alphas : alphas[k] <= alphas[1]

Halvings(alphas) == Len(alphas) - 1

(* C5 as claimed: the step sizes halve from the largest to the smallest,   *)
(* the step is halved 4 times from the maximum, and there is one observed  *)
(* convergence rate per halving.                                           *)
C5_FourHalvings ==
    tc_pc = "returned" =>
        /\ HalvingSequence(tc_out.alphas)
        /\ Halvings(tc_out.alphas) = 4
        /\ Len(tc_out.conv_rates) = Halvings(tc_out.alphas)

(* C5 amended: the step sizes are the four values 8, 4, 2, 1, ordered from *)
(* largest to smallest, each exactly half of the previous one; the step is *)
(* halved 3 times from the maximum, giving one observed convergence rate   *)
(* per halving (3 rates), each between two consecutive step sizes.         *)
C5_ThreeHalvings ==
    tc_pc = "returned" =>
        /\ HalvingSequence(tc_out.alphas)
        /\ tc_out.alphas = <<8, 4, 2, 1>>
        /\ Halvings(tc_out.alphas) = 3
        /\ Len(tc_out.errs) = Len(tc_out.alphas)
        /\ Len(tc_out.magnitudes) = Len(tc_out.alphas)
        /\ Len(tc_out.conv_rates) = Halvings(tc_out.alphas)
        /\ \A k \in DOMAIN tc_out.conv_rates :
              /\ tc_out.conv_rates[k].alpha_hi = tc_out.alphas[k]
              /\ tc_out.conv_rates[k].alpha_lo = tc_out.alphas[k + 1]
              /\ tc_out.conv_rates[k].err_hi = tc_out.errs[k]
              /\ tc_out.conv_rates[k].err_lo = tc_out.errs[k + 1]

C5_Witness ==
    /\ tc_pc = "returned"
    /\ Len(tc_out.conv_rates) = 3
    /\ tc_out.alphas[1] = 8
    /\ tc_out.errs[4] # 0

\* ---- C6 ----------------------------------------------------------------
\* the cases the module docstring announces: every combination of cover and
\* body moduli from 2.5 kPa to 10 kPa in steps of 2.5 kPa (in dPa)
DocumentedModuli == {25000, 50000, 75000, 100000}
DocumentedCases == DocumentedModuli \X DocumentedModuli

(* C6: once the stage loops are over, the set of (emod_cov, emod_bod)      *)
(* cases visited by each stage loop is exactly the full product            *)
(* {2.5, 5, 7.5, 10} x {2.5, 5, 7.5, 10} kPa.                              *)
C6_FullProductVisited ==
    dr_stage \in {"postproc", "done"} =>
        \A k \in DOMAIN Stages : dr_visited[Stages[k]] = DocumentedCases

\* ---- C7 ----------------------------------------------------------------
SupportedSepMethods == {"fixed", "smoothmin"}

\* the nonlinear fluid model of a separation method and the linearization
\* of a nonlinear fluid model
NonlinearFluidOf(sep_method) ==
    IF sep_method = "fixed" THEN "dfmd.BernoulliFixedSep" ELSE "dfmd.BernoulliSmoothMinSep"
LinearizationOf(fluid) ==
    IF fluid = "dfmd.BernoulliFixedSep" THEN "dfmd.LinearizedBernoulliFixedSep"
    ELSE "dfmd.LinearizedBernoulliSmoothMinSep"

(* C7: when load_hopf constructs the HopfModel, sep_method is a supported  *)
(* one, the nonlinear model has that method's fluid type and the           *)
(* linearized model its counterpart, the solids are KelvinVoigt and        *)
(* LinearizedKelvinVoigt, both models were loaded from the same mesh with  *)
(* the same facet and separation labels, and the same props vector has     *)
(* been set on both; load_hopf raises only for an unsupported method.      *)
C7_LinearizationPaired ==
    /\ lh_hopf.built =>
          /\ lh_args.sep_method \in SupportedSepMethods
          /\ lh_hopf.res.loaded /\ lh_hopf.dres.loaded
          /\ lh_hopf.res.fluid = NonlinearFluidOf(lh_args.sep_method)
          /\ lh_hopf.dres.fluid = LinearizationOf(lh_hopf.res.fluid)
          /\ lh_hopf.res.solid = "dsmd.KelvinVoigt"
          /\ lh_hopf.dres.solid = "dsmd.LinearizedKelvinVoigt"
          /\ lh_hopf.res.mesh = lh_args.mesh_path
          /\ lh_hopf.dres.mesh = lh_args.mesh_path
          /\ lh_hopf.res.kwargs = lh_hopf.dres.kwargs
          /\ lh_hopf.res.kwargs.separation_vertex_label = lh_args.sep_vert_label
          /\ lh_hopf.res.kwargs.fsi_facet_labels = <<"pressure">>
          /\ lh_hopf.res.kwargs.fixed_facet_labels = <<"fixed">>
          /\ lh_hopf.res.props = lh_hopf.dres.props
          /\ lh_hopf.res.props = lh_props
          /\ lh_props.standard
    /\ lh_pc = "raised" => lh_args.sep_method \notin SupportedSepMethods

C7_Witness ==
    /\ lh_pc = "done"
    /\ lh_hopf.built
    /\ lh_args.sep_method = "smoothmin"
    /\ lh_args.sep_vert_label = "separation-inf"
    /\ lh_hopf.dres.fluid = "dfmd.LinearizedBernoulliSmoothMinSep"

\* ---- C8 ----------------------------------------------------------------
\* gw_err + (omega - c)^2/std_omega + alpha*egrad
ObjectiveValue(par, lv) ==
    Rat(StdOmega * lv["gw_err"] + (lv["omega"] - par.c) * (lv["omega"] - par.c)
            + StdOmega * par.alpha * lv["egrad"],
        StdOmega)

\* d(gw_err) + (2/std_omega)*(omega - c)*d(omega) + alpha*d(egrad)
ObjectiveDerivative(par, lv, dlv) ==
    Rat(StdOmega * dlv["gw_err"] + 2 * (lv["omega"] - par.c) * dlv["omega"]
            + StdOmega * par.alpha * dlv["egrad"],
        StdOmega)

(* C8: the value of the objective composed in run_inv_opt is               *)
(* gw_err + (omega - c)^2/std_omega + alpha*egrad and each of its          *)
(* derivatives is d(gw_err) + (2/std_omega)*(omega - c)*d(omega) +         *)
(* alpha*d(egrad), for all leaf values and leaf derivatives; with          *)
(* alpha = 0 the regularization term adds zero to the value and to every   *)
(* derivative.                                                             *)
C8_ObjectiveComposition ==
    fn_pc = "assembled" =>
        /\ fn_out.what = "g" => fn_out.val = ObjectiveValue(fn_par, fn_leaf)
        /\ fn_out.what = "dg" => fn_out.val = ObjectiveDerivative(fn_par, fn_leaf, fn_dleaf)
        /\ fn_par.alpha = 0 =>
              /\ Eval(fn_func.func_egrad_norm, fn_leaf) = RInt(0)
              /\ Deriv(fn_func.func_egrad_norm, fn_leaf, fn_dleaf) = RInt(0)

C8_Witness ==
    /\ fn_pc = "assembled"
    /\ fn_out.what = "dg"
    /\ fn_kind = "dcamp"
    /\ fn_par.alpha > 0
    /\ fn_par.c # 0
    /\ fn_leaf["omega"] - fn_par.c # 0
    /\ fn_dleaf["omega"] # 0
    /\ fn_dleaf["egrad"] # 0
    /\ fn_out.val.d = 5

\* ---- C9 ----------------------------------------------------------------
(* C9: whether or not the fixed-point and Hopf Newton solves converged,    *)
(* setup_hopf_state and run_solve_hopf call each solver once (no retry),   *)
(* carry on with the state returned, and persist it: the guess is built on *)
(* the returned fixed point, and the state written (to hopf_state_path     *)
(* when one is given; to the 'state' group, followed by 'props') is the    *)
(* state the Hopf solve returned.                                          *)
C9_NonConvergenceNotFatal ==
    /\ su_pc = "done" =>
          /\ su_calls = [fp |-> 1, modal |-> 1, hopf |-> 1]
          /\ su_xhopf0.state = su_fp.state
          /\ su_hopf.guess = su_xhopf0
          /\ su_path # "none" => su_file = [exists |-> TRUE, state |-> su_hopf]
          /\ su_path = "none" => su_file = NoFile
    /\ (rs_pc = "done" /\ rs_guess.called) =>
          /\ rs_calls = 1
          /\ rs_hopf.guess = rs_guess
          /\ rs_file.state = [exists |-> TRUE, val |-> rs_hopf]
          /\ rs_file.props = [exists |-> TRUE, val |-> rs_props]
    /\ su_pc \in {"modal", "select", "assign_state", "assign_psub", "assign_omega",
                  "assign_modes", "hopf_solve"} => su_calls.fp = 1
    /\ rs_pc \in {"write_state", "write_props"} => rs_calls = 1

C9_Witness ==
    /\ su_pc = "done"
    /\ ~su_fp.converged
    /\ ~su_hopf.converged
    /\ su_file.exists
    /\ su_file.state.guess.state = "xfp_last_iterate"

\* ---- C10 ---------------------------------------------------------------
AssembledWithBC(obj, n) == obj = [at |-> n, bc |-> TRUE]

(* C10: whenever the residual is returned to the Newton solver or the      *)
(* Jacobian is used in a solve, both were assembled at the current iterate *)
(* and carry the Dirichlet conditions; every solve is a PREONLY KSP with   *)
(* an LU preconditioner: one factorization of that Jacobian and no Krylov  *)
(* iterations.                                                             *)
C10_SubproblemAtIterate ==
    /\ nw_pc = "assem_res" =>
          (AssembledWithBC(nw_res, nw_n) /\ AssembledWithBC(nw_jac, nw_n))
    /\ nw_pc \in {"ksp_setup", "ksp_solve", "done"} =>
          AssembledWithBC(nw_info.residual_seen, nw_info.iterations)
    /\ nw_pc = "ksp_solve" =>
          /\ AssembledWithBC(nw_ksp.operators, nw_n)
          /\ AssembledWithBC(nw_info.residual_seen, nw_n)
    /\ nw_ksp.ksp_type # "none" =>
          /\ nw_ksp.ksp_type = "preonly"
          /\ nw_ksp.pc_type = "lu"
          /\ nw_ksp.factorizations = 1
          /\ nw_ksp.krylov_its = 0
          /\ nw_ksp.operators.bc
          /\ nw_ksp.solved => nw_ksp.operators.at = nw_n - 1

C10_Witness ==
    /\ nw_pc = "ksp_solve"
    /\ nw_n = 2
    /\ nw_ksp.operators.at = 2
    /\ nw_ksp.factorizations = 1

\* ---- C11 ---------------------------------------------------------------
(* C11: run_solve_hopf flags the adjacent sweep points (i, i+1) exactly    *)
(* when omega_real[i] <= 0 and omega_real[i+1] > 0; with several brackets  *)
(* it hands the one with the smallest i to gen_hopf_initial_guess; with    *)
(* none it makes no Hopf solve and writes neither the 'state' nor the      *)
(* 'props' group.                                                          *)
C11_BracketCondition ==
    /\ rs_pc \in {"guess", "solve", "write_state", "write_props", "done"}
          => /\ DOMAIN rs_is_hopf_bif = 1..(Len(rs_omegas_real) - 1)
             /\ \A k \in DOMAIN rs_is_hopf_bif :
                    rs_is_hopf_bif[k] <=> (rs_omegas_real[k] <= 0 /\ rs_omegas_real[k + 1] > 0)
    /\ (RunPastDetection /\ UpCrossings(rs_omegas_real) # {})
          => /\ rs_guess.called
             /\ rs_guess.idx + 1 \in UpCrossings(rs_omegas_real)
             /\ \A k \in UpCrossings(rs_omegas_real) : rs_guess.idx + 1 <= k
    /\ (rs_pc = "done" /\ UpCrossings(rs_omegas_real) = {})
          => /\ rs_calls = 0
             /\ ~rs_file.state.exists
             /\ ~rs_file.props.exists
    /\ (rs_pc = "done" /\ UpCrossings(rs_omegas_real) # {})
          => (rs_calls = 1 /\ rs_file.state.exists /\ rs_file.props.exists)

C11_Witness ==
    /\ rs_pc = "done"
    /\ Cardinality(UpCrossings(rs_omegas_real)) = 2
    /\ rs_guess.idx = 0
    /\ rs_file.state.exists

\* ---- C12 ---------------------------------------------------------------
\* the LSA file of the case the Hopf stage has just run
LsaPathOfLast == FPath("LSA", st_last.case[1], st_last.case[2])
HopfStageRan == st_last.stage = "Hopf" /\ st_last.ran

(* C12 as claimed: whenever the Hopf stage has run run_solve_hopf for a    *)
(* case, in any run of the script, the LSA file of that case exists and    *)
(* holds the omega_real dataset for the whole pressure sweep of that case. *)
C12_LsaFileComplete ==
    HopfStageRan =>
        /\ LsaPathOfLast \in DOMAIN st_fs
        /\ "omega_real" \in st_fs[LsaPathOfLast].names
        /\ Len(st_fs[LsaPathOfLast].omega_real) = Len(PSUBS)
        /\ st_fs[LsaPathOfLast].omega_real = MaxRealOmega(st_world, st_last.case)

\* ---- C13 ---------------------------------------------------------------
\* the output file of the case a stage loop has just handled
PathOfLast(last) == FPath(last.stage, last.case[1], last.case[2])

\* a step of the driver leaves every file that exists as it is
ExistingFilesKept ==
    \A p \in DOMAIN st_fs : p \in DOMAIN st_fs' /\ st_fs'[p] = st_fs[p]

\* a stage's computation ran only for a case whose output file did not exist,
\* and a case whose file exists changes nothing in the directory
RanOnlyIfAbsent ==
    st_last'.stage # "none" =>
        /\ st_last'.ran => PathOfLast(st_last') \notin DOMAIN st_fs
        /\ ~st_last'.ran => (PathOfLast(st_last') \in DOMAIN st_fs /\ st_fs' = st_fs)

\* within a run, a stage starts only after the stage before it has handled
\* every case
StagesInOrder ==
    /\ st_handled.Hopf # {} => st_handled.LSA = PostprocCases
    /\ st_handled.LargeAmp # {} => st_handled.Hopf = PostprocCases

(* C13: for every case and each of the stages LSA, Hopf and LargeAmp, the  *)
(* stage's computation runs only if the case's output file for the stage   *)
(* does not exist; a file that exists is never opened for writing, so no   *)
(* rerun changes its contents; and within a run all LSA cases are handled  *)
(* before any Hopf case and all Hopf cases before any LargeAmp case.       *)
C13_ExistingFilesUntouched ==
    /\ [][ExistingFilesKept /\ RanOnlyIfAbsent]_vars
    /\ []StagesInOrder

C13_Witness ==
    /\ st_run = 2
    /\ st_last.stage = "LargeAmp"
    /\ st_last.existed
    /\ ~st_last.ran
    /\ \E p \in DOMAIN st_fs : p.stage = "LargeAmp" /\ st_fs[p].integrated

\* ---- C14 ---------------------------------------------------------------
\* the files of the other stages for the case of a file
HopfPathOf(p) == [p EXCEPT !.stage = "Hopf"]
LsaPathOf(p) == [p EXCEPT !.stage = "LSA"]

\* the LSA file of a case holds a sweep with a stable-to-unstable bracket
BracketInLsa(p) ==
    /\ LsaPathOf(p) \in DOMAIN st_fs
    /\ "omega_real" \in st_fs[LsaPathOf(p)].names
    /\ UpCrossings(st_fs[LsaPathOf(p)].omega_real) # {}

\* the critical-parameter segment of a stored Hopf state: the block before
\* the last one
StoredOnset(xhopf) == xhopf[Len(xhopf) - 1].val

(* C14: a large-amplitude simulation is integrated for a case if and only  *)
(* if the Hopf stage found a stable-to-unstable bracket for that case and  *)
(* stored its Hopf state; when it is, the subglottal-pressure control is   *)
(* the stored onset pressure plus 1000 (100 Pa); when no state is stored,  *)
(* nothing is integrated.                                                  *)
C14_LargeAmpIffHopfState ==
    /\ \A p \in DOMAIN st_fs : p.stage = "Hopf" =>
           (st_fs[p].state.exists <=> BracketInLsa(p))
    /\ \A p \in DOMAIN st_fs : p.stage = "LargeAmp" =>
           /\ HopfPathOf(p) \in DOMAIN st_fs
           /\ st_fs[p].integrated <=> st_fs[HopfPathOf(p)].state.exists
           /\ st_fs[p].integrated =>
                  st_fs[p].psub = StoredOnset(st_fs[HopfPathOf(p)].state.val) + 1000
           /\ ~st_fs[p].integrated => (st_fs[p].xfp = <<>> /\ st_fs[p].psub = 0)

C14_Witness ==
    /\ st_world.converged
    /\ \E p \in DOMAIN st_fs :
           /\ p.stage = "LargeAmp"
           /\ st_fs[p].integrated
           /\ st_fs[p].psub = (PSUBS[OnsetAt] + PSUBS[OnsetAt + 1]) \div 2 + 1000
    /\ \E p \in DOMAIN st_fs :
           /\ p.stage = "LargeAmp"
           /\ ~st_fs[p].integrated
           /\ ~st_fs[HopfPathOf(p)].state.exists

\* ---- C15 ---------------------------------------------------------------
\* the block of a stored Hopf state with a given label
BlockOf(xhopf, label) == xhopf[CHOOSE k \in DOMAIN xhopf : xhopf[k].label = label]

\* the labels of a sequence of blocks
LabelsOf(blocks) == [k \in DOMAIN blocks |-> blocks[k].label]

\* labels of the Hopf state outside its base-state segment
NonStateLabels ==
    {ModeRealLabels[k] : k \in DOMAIN ModeRealLabels}
        \cup {ModeImagLabels[k] : k \in DOMAIN ModeImagLabels} \cup {"psub", "omega"}

(* C15: the Hopf state stored by run_solve_hopf is read back positionally  *)
(* by run_large_amp_model: the first 4 blocks, taken as the fixed point,   *)
(* are exactly the base-state segment (u, v, q, p) of the stored state,    *)
(* with no eigenmode, pressure or frequency block among them; the onset    *)
(* pressure read from 'psub' is the critical-parameter segment; and the    *)
(* transient initial state has u, v, q, p equal to that fixed point and    *)
(* a equal to 0.                                                           *)
C15_PositionalReadBack ==
    \A p \in DOMAIN st_fs : (p.stage = "LargeAmp" /\ st_fs[p].integrated) =>
        LET xhopf == st_fs[HopfPathOf(p)].state.val
            xfp   == st_fs[p].xfp
        IN  /\ LabelsOf(xfp) = StateLabels
            /\ \A k \in DOMAIN xfp : xfp[k] = xhopf[k] /\ xfp[k].label \notin NonStateLabels
            /\ st_fs[p].psub - 1000 = StoredOnset(xhopf)
            /\ xhopf[Len(xhopf) - 1].label = "psub"
            /\ \A k \in DOMAIN StateLabels :
                   st_fs[p].ini_state[StateLabels[k]] = BlockOf(xhopf, StateLabels[k]).val
            /\ st_fs[p].ini_state["a"] = 0

C15_Witness ==
    /\ ~st_world.converged
    /\ \E p \in DOMAIN st_fs :
           /\ p.stage = "LargeAmp"
           /\ st_fs[p].integrated
           /\ Len(st_fs[p].xfp) = 4
           /\ st_fs[p].ini_state["p"] = BlockValue("p", 0)
           /\ st_fs[p].ini_state["u"] # st_fs[p].ini_state["p"]

\* ---- C16 ---------------------------------------------------------------
(* C16: after set_props(props, celllabel_to_dofs, emod_cov, emod_bod),     *)
(* emod is emod_cov at dofs only in the cover, emod_bod at dofs only in    *)
(* the body and the mean (emod_cov + emod_bod)/2 at dofs in both; emod at  *)
(* dofs in neither is as it was before the call; so, with the props        *)
(* vector changed in place case after case, the emod bound to the model    *)
(* for a case's solve is fixed by that case's moduli at every cover or     *)
(* body dof, whatever cases came before.                                   *)
C16_EmodByRegion ==
    sp_calls > 0 =>
        /\ \A d \in Dofs :
               /\ (d \in sp_mesh.cover \ sp_mesh.body) => sp_props.emod[d] = sp_case[1]
               /\ (d \in sp_mesh.body \ sp_mesh.cover) => sp_props.emod[d] = sp_case[2]
               /\ (d \in sp_mesh.cover \cap sp_mesh.body)
                      => 2 * sp_props.emod[d] = sp_case[1] + sp_case[2]
               /\ (d \notin sp_mesh.cover \cup sp_mesh.body)
                      => sp_props.emod[d] = sp_prev.emod[d]
        /\ sp_pc = "set_props" => sp_model = sp_props

C16_Witness ==
    /\ sp_calls = 2
    /\ sp_pc = "set_props"
    /\ sp_case[1] # sp_case[2]
    /\ sp_prev.emod # sp_props.emod
    /\ sp_mesh.cover \cap sp_mesh.body # {}
    /\ sp_mesh.cover \ sp_mesh.body # {}
    /\ sp_mesh.body \ sp_mesh.cover # {}

\* ---- C17 ---------------------------------------------------------------
(* C17 as claimed: on return from optimize_comp_amp the returned amplitude *)
(* is an object of its own holding the minimizer's solution opt_res['x'],  *)
(* and the amplitude the glottal-width error functional holds equals that  *)
(* same solution, whatever trial points the minimizer evaluated.           *)
C17_FunctionalHoldsSolution ==
    oc_pc = "done" =>
        /\ oc_ret # oc_func
        /\ oc_heap[oc_ret] = oc_sol
        /\ oc_heap[oc_func] = oc_sol

====
